---- MODULE Spec2Model ----
(***************************************************************************)
(* Model of the Tubbs-fire landscape validation helpers                    *)
(* (cases/Validation/landscape_scale/tubbs_fire/scripts/                   *)
(*  landscape_validation_helpers.py):                                      *)
(*   - calc_cohen_kappa_for_case  (the grid-aligned skill scorer)          *)
(*   - burn_area_history_from_toa (the burn-history curve builder)         *)
(*   - load_viirs_points, add_viirs_obstime,                               *)
(*     viirs_concave_hulls_by_halfday, viirs_burn_area_history_from_hulls  *)
(*     and _parse_start_to_utc (the VIIRS detection pipeline, run in the   *)
(*     order of postprocess.py)                                            *)
(*   - load_toa_stack (the arrival raster loader)                          *)
(* and of three smaller programs of the suite:                             *)
(*   - find_rasters / load_stack (wue_transient_heatflux/scripts/          *)
(*     raster_functions.py)                                                *)
(*   - metrics_to_macro.py (wue_transient_heatflux/scripts)                *)
(*   - tools/run_all.py (the batch case runner)                            *)
(*                                                                         *)
(* A raster is flattened in row-major order: cell (r, c) of a grid with    *)
(* `cols` columns is index (r-1)*cols + c.  A cell of a masked array is a  *)
(* record [k, v, m]: k is "num", "nan" or "inf" (the stored float), v the  *)
(* stored number when k = "num", and m the mask bit.  Times are seconds.   *)
(***************************************************************************)
EXTENDS Integers, Sequences, FiniteSets, TLC

VARIABLES
    pc,               \* position in the running function
    toa_field,        \* calc_cohen_kappa_for_case: the simulated arrival grid
    toa_shape,        \* toa_field.shape
    ref_shape,        \* (ref.height, ref.width) of the reference raster
    hulls_by_halfday, \* key timestamp -> hull (the set of reference cells it covers)
    t0,               \* start time in UTC seconds
    valid,            \* valid-cell mask of toa_field
    obs_times,        \* sorted(hulls_by_halfday.keys())
    i,                \* number of hulls processed
    burnt,            \* simulated mask of the hull last processed
    viirs_bin,        \* observed mask of the hull last processed
    kappas, times_simu, times_viirs,   \* the three output lists
    err,              \* the exception raised, if any
    ret,              \* the returned value
    toa_array,        \* burn_area_history_from_toa: the arrival grid, flattened
    pixel_area_m2,    \* <<>> for None, <<a>> for an area a
    n_steps,          \* <<>> for None, <<n>> for a sample count n
    vals,             \* the extracted arrival values
    gdf,              \* the VIIRS detection table of the caller (a sequence of rows)
    ratio,            \* concavity passed to viirs_concave_hulls_by_halfday, in tenths
    start_time,       \* the start-time string, as a record of its parts
    g_rows,           \* viirs_concave_hulls_by_halfday: g, the filtered, sorted copy
    hd_done,          \* number of half-day cohorts processed
    cum_points,       \* the accumulated points
    attempt,          \* what the last call of concave_hull did
    hulls_by_half,    \* representative observation time -> stored hull
    viirs_hist,       \* <<times_sec, areas_km2>> of the observed history
    shps,             \* load_viirs_points: the shapefiles under viirs_dir
    glob_files,       \* load_toa_stack, find_rasters: the paths matched by the glob
    args,             \* run_all.py: the parsed command line
    disk,             \* the directories and files run_all.py looks at
    outcomes,         \* the return code each case's command gives
    case_scripts,     \* discover_cases(cases_dir)
    case_idx,         \* number of cases gone through by the loop
    started,          \* the cases whose command was started, in order
    finished,         \* the return codes collected, in order
    exit_code,        \* <<>> or <<c>> once sys.exit(c) was called
    table_passed,     \* the table object handed to add_viirs_obstime, as it
                      \* stands after the call (<<>> before the call)
    metrics_json,     \* metrics_to_macro.py: the file outputs/metrics.json
    out_file          \* report/metrics_macros.tex: <<>> or <<lines>> once written

kvars == <<pc, toa_field, toa_shape, ref_shape, hulls_by_halfday, t0, valid,
           obs_times, i, burnt, viirs_bin, kappas, times_simu, times_viirs,
           err, ret>>

kvars_in == <<toa_field, toa_shape, ref_shape, hulls_by_halfday, t0>>

bvars == <<toa_array, pixel_area_m2, n_steps, vals>>

pvars == <<gdf, ratio, start_time, g_rows, hd_done, cum_points, attempt,
           hulls_by_half, viirs_hist>>

rvars == <<args, disk, outcomes, case_scripts, case_idx, started, finished,
           exit_code>>

mvars == <<metrics_json, out_file>>

tvars == <<glob_files, rvars, table_passed, mvars>>

vars == <<kvars, bvars, pvars, shps, tvars>>

----------------------------------------------------------------------------
(* Bounds of the model *)

MaxToa == 2      \* largest arrival time stored in an enumerated grid
MaxHulls == 2    \* largest number of hulls in the hull mapping
MaxBurnCells == 4  \* largest number of cells of a grid given to the curve builder
MaxSteps == 3    \* largest sample count given to the curve builder

\* shapes of the enumerated grids (rows, cols)
Shapes == {<<1, 3>>, <<3, 1>>}

----------------------------------------------------------------------------
(* Floats and masked-array cells *)

NaN == [k |-> "nan", v |-> 0]
PosInf == [k |-> "inf", v |-> 0]
Num(x) == [k |-> "num", v |-> x]

Cell(f, masked) == [k |-> f.k, v |-> f.v, m |-> masked]

IsNaN(f) == f.k = "nan"

\* np.isfinite on the stored value
IsFinite(c) == c.k = "num"

\* stored value <= t  (a comparison with NaN is False, +inf <= t is False)
LeqTime(c, t) == c.k = "num" /\ c.v <= t

\* stored value > 0.0
GtZero(c) == (c.k = "num" /\ c.v > 0) \/ c.k = "inf"

NumCells(shape) == shape[1] * shape[2]

\* cells of the enumerated arrival grids: no-data as an unmasked NaN or as a
\* masked cell that still stores an arrival time, and every time 0..MaxToa
KappaCells ==
    {Cell(NaN, FALSE), Cell(Num(1), TRUE)} \cup {Cell(Num(x), FALSE) : x \in 0..MaxToa}

----------------------------------------------------------------------------
(* Helpers on sets, sequences and grids *)

SetMin(S) == CHOOSE x \in S : \A y \in S : x <= y
SetMax(S) == CHOOSE x \in S : \A y \in S : y <= x

RECURSIVE Ascending(_)
Ascending(S) == IF S = {} THEN <<>> ELSE <<SetMin(S)>> \o Ascending(S \ {SetMin(S)})

RECURSIVE Descending(_)
Descending(S) == IF S = {} THEN <<>> ELSE <<SetMax(S)>> \o Descending(S \ {SetMax(S)})

Range(s) == {s[j] : j \in DOMAIN s}

RECURSIVE Gcd(_, _)
Gcd(a, b) == IF b = 0 THEN a ELSE Gcd(b, a % b)

Abs(x) == IF x < 0 THEN 0 - x ELSE x

\* grid[mask].ravel(): the cells of grid selected by a boolean mask, in raster order
Select(grid, mask) ==
    LET F[n \in 0..Len(grid)] ==
            IF n = 0 THEN <<>>
            ELSE IF mask[n] THEN Append(F[n - 1], grid[n]) ELSE F[n - 1]
    IN  F[Len(grid)]

Zeros(n) == [j \in 1..n |-> 0]

----------------------------------------------------------------------------
(* calc_cohen_kappa_for_case: the pure parts *)

\* valid = np.isfinite(arr) & ~arr.mask
ValidMask(arr) == [j \in 1..Len(arr) |-> IsFinite(arr[j]) /\ ~arr[j].m]

\* faulty variant: the keys taken in an order that is not ascending
UnsortedKeys(hulls) == Descending(DOMAIN hulls)
\* sorted(hulls_by_halfday.keys())
SortedKeys(hulls) == Ascending(DOMAIN hulls)

\* (ts - t0).total_seconds(), both instants in UTC
ElapsedSeconds(t, start) == t - start

\* rasterize_polygon_to_ref: covered cells burned to 1, all others 0
Rasterize(hull, shape) == [j \in 1..NumCells(shape) |-> IF j \in hull THEN 1 ELSE 0]

\* faulty variant: the valid mask left out of the threshold mask
ArrivedIgnoringValid(arr, v, time_sec) ==
    [j \in 1..Len(arr) |-> LeqTime(arr[j], time_sec) /\ GtZero(arr[j])]
\* faulty variant: the test arr > 0.0 left out
ArrivedInclusiveZero(arr, v, time_sec) ==
    [j \in 1..Len(arr) |-> v[j] /\ LeqTime(arr[j], time_sec)]
\* faulty variant: the cells that arrive at the cutoff or later
ArrivedLate(arr, v, time_sec) ==
    [j \in 1..Len(arr) |->
        v[j] /\ arr[j].k = "num" /\ arr[j].v >= time_sec /\ GtZero(arr[j])]
\* mask = valid & (arr <= time_sec) & (arr > 0.0)
Arrived(arr, v, time_sec) ==
    [j \in 1..Len(arr) |-> v[j] /\ LeqTime(arr[j], time_sec) /\ GtZero(arr[j])]

AnyTrue(mask) == \E j \in DOMAIN mask : mask[j]

\* burnt = zeros; if time_sec > 0 and mask.any(): burnt[mask] = 1
BurntMask(arr, v, time_sec) ==
    LET mask == Arrived(arr, v, time_sec)
    IN  IF time_sec > 0 /\ AnyTrue(mask)
        THEN [j \in 1..Len(arr) |-> IF mask[j] THEN 1 ELSE 0]
        ELSE Zeros(Len(arr))

\* faulty variant: nanmin in place of nanmax
SimTimeMin(arr, v, time_sec) ==
    LET mask == Arrived(arr, v, time_sec)
    IN  IF time_sec > 0 /\ AnyTrue(mask)
        THEN Num(SetMin({arr[j].v : j \in {q \in 1..Len(arr) : mask[q]}}))
        ELSE NaN
\* sim_time = nan; if time_sec > 0 and mask.any(): sim_time = nanmax(arr[mask])
SimTime(arr, v, time_sec) ==
    LET mask == Arrived(arr, v, time_sec)
    IN  IF time_sec > 0 /\ AnyTrue(mask)
        THEN Num(SetMax({arr[j].v : j \in {q \in 1..Len(arr) : mask[q]}}))
        ELSE NaN

\* y.max() == y.min() on a non-empty label vector
SingleClass(y) == SetMax(Range(y)) = SetMin(Range(y))

KappaNaN == [nan |-> TRUE, num |-> 0, den |-> 1]
Ratio(a, b) ==
    LET g == Gcd(Abs(a), Abs(b))
    IN  [nan |-> FALSE, num |-> a \div g, den |-> b \div g]

\* sklearn.metrics.cohen_kappa_score(y1, y2) on 0/1 labels: 1 - sum(w*confusion) /
\* sum(w*expected), w the off-diagonal weights, expected = outer(sum0, sum1) / n;
\* with one label in y1 and y2 together the matrix is 1x1 and the ratio is 0/0
CohenKappa(y1, y2) ==
    LET n == Len(y1)
        cnt(a, b) == Cardinality({j \in 1..n : y1[j] = a /\ y2[j] = b})
        sum0(b) == cnt(0, b) + cnt(1, b)
        sum1(a) == cnt(a, 0) + cnt(a, 1)
        dis == cnt(0, 1) + cnt(1, 0)
        exp == sum0(0) * sum1(1) + sum0(1) * sum1(0)
    IN  IF Cardinality(Range(y1) \cup Range(y2)) < 2 \/ exp = 0
        THEN KappaNaN
        ELSE Ratio(exp - dis * n, exp)

\* faulty variant: the single-class guard left out
UnguardedKappa(y_obs, y_sim) == CohenKappa(y_obs, y_sim)
\* the guarded score: NaN when both label vectors are single-class, else
\* cohen_kappa_score(y_obs, y_sim), kept when finite and NaN otherwise
GuardedKappa(y_obs, y_sim) ==
    IF SingleClass(y_sim) /\ SingleClass(y_obs)
    THEN KappaNaN
    ELSE CohenKappa(y_obs, y_sim)

\* faulty variant: the labels taken over every cell of the grid
AllCells(grid, v) == grid
\* the labels compared: burnt[valid].ravel(), viirs_bin[valid].ravel()
Labels(grid, v) == Select(grid, v)

----------------------------------------------------------------------------
(* calc_cohen_kappa_for_case: inputs and steps *)

NoErr == [type |-> "none", msg |-> "", shapes |-> <<>>]
NoRet == <<>>

\* a hull is known here by the reference cells it covers; the enumerated hulls
\* cover the first n cells in raster order, n = 0 (empty polygon) .. all.  Every
\* arrival grid is enumerated, so every joint pattern of arrival and coverage occurs
Footprints(shape) == {1..n : n \in 0..NumCells(shape)}

\* key timestamps and the start time, in UTC seconds: with the start at 1 the
\* elapsed seconds of a hull range over -1..MaxToa, before, at and after every
\* enumerated arrival time.  The start time is taken as already parsed.
KeyTimes == 0..(MaxToa + 1)

HullMaps(shape) ==
    UNION {[K -> Footprints(shape)] :
              K \in {S \in SUBSET KeyTimes : Cardinality(S) <= MaxHulls}}

\* the 4x4 scenario grid [[1,2,_,_],[3,4,_,_],[_,_,_,_],[_,_,_,_]], _ = no-data
ScenarioShape == <<4, 4>>
ScenarioGrid ==
    [j \in 1..16 |->
        CASE j = 1 -> Cell(Num(1), FALSE)
          [] j = 2 -> Cell(Num(2), FALSE)
          [] j = 5 -> Cell(Num(3), FALSE)
          [] j = 6 -> Cell(Num(4), FALSE)
          [] OTHER -> Cell(Num(1), TRUE)]
ScenarioHulls == {[K -> {{}, {1, 2}, 1..16}] : K \in {{4}, {4, 5}}}

KappaIdle ==
    /\ valid = <<>> /\ obs_times = <<>> /\ i = 0
    /\ burnt = <<>> /\ viirs_bin = <<>>
    /\ kappas = <<>> /\ times_simu = <<>> /\ times_viirs = <<>>
    /\ err = NoErr /\ ret = NoRet

BurnIdle ==
    toa_array = <<>> /\ pixel_area_m2 = <<>> /\ n_steps = <<>> /\ vals = <<>>

ToolsIdle ==
    /\ glob_files = <<>>
    /\ args = <<>> /\ disk = <<>> /\ outcomes = <<>>
    /\ case_scripts = <<>> /\ case_idx = 0
    /\ started = <<>> /\ finished = <<>> /\ exit_code = <<>>
    /\ table_passed = <<>>
    /\ metrics_json = <<>> /\ out_file = <<>>

ViirsIdle ==
    /\ gdf = <<>> /\ ratio = 0 /\ start_time = <<>>
    /\ g_rows = <<>> /\ hd_done = 0 /\ cum_points = <<>> /\ hulls_by_half = <<>>
    /\ attempt = <<>> /\ viirs_hist = <<>> /\ shps = <<>>
    /\ ToolsIdle

KappaInit ==
    /\ pc = "kappa_start"
    /\ BurnIdle
    /\ ViirsIdle
    /\ t0 = 1
    /\ \/ /\ toa_shape \in Shapes
          /\ ref_shape \in Shapes
          /\ toa_field \in [1..NumCells(toa_shape) -> KappaCells]
          /\ hulls_by_halfday \in HullMaps(ref_shape)
       \/ /\ toa_shape = ScenarioShape
          /\ ref_shape = ScenarioShape
          /\ toa_field = ScenarioGrid
          /\ hulls_by_halfday \in UNION ScenarioHulls
    /\ KappaIdle

\* faulty variant: the sizes compared in place of the shapes
SameCellCount(a, b) == NumCells(a) = NumCells(b)
\* toa_field.shape != ref_shape compares the (rows, cols) tuples
ShapesMatch(a, b) == a = b

\* lines 463-466: the shapes differ
KappaGridMismatch ==
    /\ UNCHANGED <<bvars, pvars, shps, tvars>>
    /\ pc = "kappa_start"
    /\ ~ShapesMatch(toa_shape, ref_shape)
    /\ pc' = "raised"
    /\ err' = [type |-> "ValueError", msg |-> "Grid mismatch",
               shapes |-> <<toa_shape, ref_shape>>]
    /\ UNCHANGED <<toa_field, toa_shape, ref_shape, hulls_by_halfday, t0, valid,
                   obs_times, i, burnt, viirs_bin, kappas, times_simu,
                   times_viirs, ret>>

\* lines 468-477: valid mask, empty output lists, sorted keys
KappaPrepare ==
    /\ UNCHANGED <<bvars, pvars, shps, tvars>>
    /\ pc = "kappa_start"
    /\ ShapesMatch(toa_shape, ref_shape)
    /\ valid' = ValidMask(toa_field)
    /\ kappas' = <<>> /\ times_simu' = <<>> /\ times_viirs' = <<>>
    /\ obs_times' = SortedKeys(hulls_by_halfday)
    /\ i' = 0
    /\ pc' = "kappa_loop"
    /\ UNCHANGED <<toa_field, toa_shape, ref_shape, hulls_by_halfday, t0, burnt,
                   viirs_bin, err, ret>>

\* lines 479-517: one iteration of the loop over the hulls
KappaHull ==
    /\ UNCHANGED <<bvars, pvars, shps, tvars>>
    /\ pc = "kappa_loop"
    /\ i < Len(obs_times)
    /\ LET t == obs_times[i + 1]
           time_sec == ElapsedSeconds(t, t0)
           obs == Rasterize(hulls_by_halfday[t], ref_shape)
           sim == BurntMask(toa_field, valid, time_sec)
           y_sim == Labels(sim, valid)
           y_obs == Labels(obs, valid)
       IN  /\ times_viirs' = Append(times_viirs, time_sec)
           /\ viirs_bin' = obs
           /\ burnt' = sim
           /\ times_simu' = Append(times_simu, SimTime(toa_field, valid, time_sec))
           /\ IF y_sim = <<>>
              THEN \* y_sim.max() of a zero-size array
                   /\ pc' = "raised"
                   /\ err' = [type |-> "ValueError", msg |-> "zero-size array",
                              shapes |-> <<>>]
                   /\ UNCHANGED <<kappas, i>>
              ELSE /\ kappas' = Append(kappas, GuardedKappa(y_obs, y_sim))
                   /\ i' = i + 1
                   /\ UNCHANGED <<pc, err>>
    /\ UNCHANGED <<toa_field, toa_shape, ref_shape, hulls_by_halfday, t0, valid,
                   obs_times, ret>>

\* line 519
KappaReturn ==
    /\ UNCHANGED <<bvars, pvars, shps, tvars>>
    /\ pc = "kappa_loop"
    /\ i = Len(obs_times)
    /\ ret' = <<kappas, times_simu, times_viirs>>
    /\ pc' = "done"
    /\ UNCHANGED <<toa_field, toa_shape, ref_shape, hulls_by_halfday, t0, valid,
                   obs_times, i, burnt, viirs_bin, kappas, times_simu,
                   times_viirs, err>>

KappaNext == KappaGridMismatch \/ KappaPrepare \/ KappaHull \/ KappaReturn

SpecKappa == KappaInit /\ [][KappaNext]_vars

----------------------------------------------------------------------------
(* calc_cohen_kappa_for_case: properties *)

\* a hull has been processed: burnt, viirs_bin and the last entries of the
\* output lists belong to it
HullProcessed == pc \in {"kappa_loop", "done", "raised"} /\ times_viirs # <<>>
LastElapsed == times_viirs[Len(times_viirs)]
LastSimTime == times_simu[Len(times_simu)]
LastKappa == kappas[Len(kappas)]
Recorded == HullProcessed /\ pc # "raised"

CellIsValid(c) == c.k = "num" /\ ~c.m
ValidCells == {j \in 1..Len(toa_field) : CellIsValid(toa_field[j])}
BurnedCells == {j \in 1..Len(burnt) : burnt[j] = 1}

ScenarioMask ==
    [j \in 1..16 |-> IF j \in {1, 2, 5} THEN 1 ELSE 0]

\* C1: for every hull and cell, the simulated mask is 1 iff the cell is valid,
\* its arrival time is > 0 and <= the hull's elapsed seconds, and elapsed
\* seconds > 0; with elapsed seconds <= 0 the mask is all 0; the 4x4 scenario
\* grid with cutoff 3 gives [[1,1,0,0],[1,0,0,0],[0,0,0,0],[0,0,0,0]]
C1_SimulatedMask ==
    HullProcessed =>
        /\ Len(burnt) = Len(toa_field)
        /\ \A j \in 1..Len(toa_field) :
              /\ burnt[j] \in {0, 1}
              /\ burnt[j] = 1 <=>
                    /\ CellIsValid(toa_field[j])
                    /\ toa_field[j].v > 0
                    /\ toa_field[j].v <= LastElapsed
                    /\ LastElapsed > 0
        /\ (LastElapsed <= 0 => BurnedCells = {})
        /\ (toa_field = ScenarioGrid /\ LastElapsed = 3 => burnt = ScenarioMask)

C1_Witness ==
    HullProcessed /\ toa_field = ScenarioGrid /\ LastElapsed = 3 /\ burnt = ScenarioMask

\* C2: the realized simulated cutoff of a hull is the maximum arrival time among
\* the cells burned in its simulated mask, and is NaN exactly when no cell is
\* burned (in particular whenever elapsed seconds <= 0)
C2_RealizedCutoff ==
    HullProcessed =>
        /\ Len(times_simu) = Len(times_viirs)
        /\ IsNaN(LastSimTime) <=> BurnedCells = {}
        /\ BurnedCells # {} =>
              /\ LastSimTime.k = "num"
              /\ \A j \in BurnedCells : toa_field[j].v <= LastSimTime.v
              /\ \E j \in BurnedCells : toa_field[j].v = LastSimTime.v
        /\ LastElapsed <= 0 => IsNaN(LastSimTime)

C2_Witness ==
    /\ HullProcessed
    /\ \E j, q \in BurnedCells : toa_field[j].v < toa_field[q].v
    /\ LastSimTime = Num(2)

\* the labels present among the valid cells of a mask
ClassesOf(mask) == {mask[j] : j \in ValidCells}

\* C3: whenever the observed and the simulated labels over the valid cells are
\* both single-class, the recorded kappa is NaN and no error is raised: the run
\* goes on with the next hull
C3_SingleClassIsNaN ==
    (HullProcessed /\ Cardinality(ClassesOf(burnt)) = 1
                   /\ Cardinality(ClassesOf(viirs_bin)) = 1) =>
        /\ pc \in {"kappa_loop", "done"}
        /\ err = NoErr
        /\ Len(kappas) = Len(times_viirs)
        /\ LastKappa.nan

C3_Witness ==
    /\ Recorded
    /\ ClassesOf(burnt) = {0}
    /\ ClassesOf(viirs_bin) = {1}
    /\ LastKappa.nan
    /\ pc = "kappa_loop"
    /\ i < Len(obs_times)

MasksAgree == \A j \in ValidCells : burnt[j] = viirs_bin[j]
KappaIsOne(x) == ~x.nan /\ x.num = x.den

\* C4 as stated: masks that agree on every valid cell score 1.0, two all-zero
\* masks score NaN
C4_AsStated ==
    Recorded =>
        /\ (MasksAgree /\ ~(ClassesOf(burnt) = {0} /\ ClassesOf(viirs_bin) = {0}))
              => KappaIsOne(LastKappa)
        /\ (ClassesOf(burnt) = {0} /\ ClassesOf(viirs_bin) = {0}) => LastKappa.nan

\* C4 (amended): a recorded kappa is 1.0 when the masks agree on every valid
\* cell and both classes occur among the valid cells, and NaN when both masks
\* are single-class over the valid cells (both all-zero, and both all-one too)
C4_AgreementScore ==
    Recorded =>
        /\ (MasksAgree /\ ClassesOf(burnt) = {0, 1}) => KappaIsOne(LastKappa)
        /\ (Cardinality(ClassesOf(burnt)) = 1 /\ Cardinality(ClassesOf(viirs_bin)) = 1)
              => LastKappa.nan

C4_Witness ==
    Recorded /\ MasksAgree /\ ClassesOf(burnt) = {0, 1} /\ KappaIsOne(LastKappa)

\* C5: when the arrival grid's shape differs from the reference raster's shape
\* the function fails with the grid-mismatch error before any hull is
\* processed: no record is produced or returned, and the error carries both shapes
C5_GridMismatch ==
    toa_shape # ref_shape =>
        /\ pc \in {"kappa_start", "raised"}
        /\ pc = "raised" =>
              /\ err.type = "ValueError"
              /\ err.msg = "Grid mismatch"
              /\ err.shapes = <<toa_shape, ref_shape>>
        /\ i = 0
        /\ kappas = <<>> /\ times_simu = <<>> /\ times_viirs = <<>>
        /\ ret = NoRet

C5_Witness ==
    /\ pc = "raised"
    /\ toa_shape # ref_shape
    /\ NumCells(toa_shape) = NumCells(ref_shape)
    /\ err.shapes = <<toa_shape, ref_shape>>
    /\ DOMAIN hulls_by_halfday # {}

\* the record the loop body (lines 479-517) produces for one hull
HullRecord(arr, hull, shape, time_sec) ==
    LET v == ValidMask(arr)
        y_sim == Labels(BurntMask(arr, v, time_sec), v)
        y_obs == Labels(Rasterize(hull, shape), v)
    IN  <<GuardedKappa(y_obs, y_sim), SimTime(arr, v, time_sec), time_sec>>

\* the h-th smallest key of the hull mapping
KeyAt(h) ==
    CHOOSE t \in DOMAIN hulls_by_halfday :
        Cardinality({u \in DOMAIN hulls_by_halfday : u < t}) = h - 1

\* C6: the function returns one record per hull: the three lists have the
\* length of the hull mapping, index h of all three belongs to the hull with
\* the h-th smallest key timestamp, and the observed elapsed times ascend
C6_OneRecordPerHull ==
    pc = "done" =>
        /\ Len(ret) = 3
        /\ \A c \in 1..3 : Len(ret[c]) = Cardinality(DOMAIN hulls_by_halfday)
        /\ \A h \in 1..Cardinality(DOMAIN hulls_by_halfday) :
              /\ ret[3][h] = KeyAt(h) - t0
              /\ <<ret[1][h], ret[2][h], ret[3][h]>> =
                    HullRecord(toa_field, hulls_by_halfday[KeyAt(h)], ref_shape,
                               KeyAt(h) - t0)
        /\ \A h \in 1..(Len(ret[3]) - 1) : ret[3][h] <= ret[3][h + 1]

C6_Witness ==
    /\ pc = "done"
    /\ Len(ret[1]) = 2
    /\ ret[3][1] < ret[3][2]
    /\ ret[1][1] # ret[1][2]
    /\ ret[2][1] # ret[2][2]

\* what an invalid cell may hold: NaN or infinity, or any stored value under the mask
InvalidCells ==
    {Cell(NaN, FALSE), Cell(PosInf, FALSE), Cell(NaN, TRUE), Cell(PosInf, TRUE)}
        \cup {Cell(Num(x), TRUE) : x \in 0..MaxToa}

InvalidIdx == (1..Len(toa_field)) \ ValidCells

Toggle(hull, j, flip) ==
    IF ~flip THEN hull ELSE IF j \in hull THEN hull \ {j} ELSE hull \cup {j}

\* C7: invalid cells never influence the score: a second run whose arrival grid
\* and hull coverage differ from this run's only at invalid cells (there: any
\* other no-data content, any coverage) returns the same kappa, simulated cutoff
\* and observed time for every hull
C7_InvalidCellsIgnored ==
    pc = "done" =>
        \A h \in 1..Len(ret[1]) :
        \A j1 \in InvalidIdx : \A j2 \in {q \in InvalidIdx : q >= j1} :
        \A c1, c2 \in InvalidCells : \A f1, f2 \in BOOLEAN :
            LET arr2 == [toa_field EXCEPT ![j1] = c1, ![j2] = c2]
                hull2 == Toggle(Toggle(hulls_by_halfday[KeyAt(h)], j1, f1), j2, f2)
            IN  HullRecord(arr2, hull2, ref_shape, KeyAt(h) - t0)
                    = <<ret[1][h], ret[2][h], ret[3][h]>>

\* a masked cell that stores an arrival time already reached and is covered by
\* the hull, in a run that scored a defined kappa
C7_Witness ==
    /\ pc = "done"
    /\ Len(ret[1]) >= 1
    /\ ~ret[1][1].nan
    /\ \E j \in InvalidIdx :
          /\ toa_field[j].m /\ toa_field[j].k = "num"
          /\ toa_field[j].v > 0 /\ toa_field[j].v <= ret[3][1]
          /\ j \in hulls_by_halfday[KeyAt(1)]
          /\ burnt[j] = 0

\* the runs with a single hull: every grid and shape, one key and footprint
KappaSingleInit ==
    /\ KappaInit
    /\ Cardinality(DOMAIN hulls_by_halfday) = 1

SpecKappaSingle == KappaSingleInit /\ [][KappaNext]_vars

----------------------------------------------------------------------------
(* burn_area_history_from_toa *)

\* cells of the enumerated grids: NaN, +inf, a masked cell storing an arrival
\* time, and every time -1..MaxToa
BurnCells ==
    {Cell(NaN, FALSE), Cell(PosInf, FALSE), Cell(Num(1), TRUE)}
        \cup {Cell(Num(x), FALSE) : x \in -1..MaxToa}

BurnGrids == UNION {[1..n -> BurnCells] : n \in 0..MaxBurnCells}

\* the per-pixel area is abs(transform.a * transform.e) of a georeferenced
\* raster, a positive number, or None
PixelAreas == {<<>>, <<1>>, <<2>>}

\* None, or a sample count; a negative count is refused by np.linspace
StepCounts == {<<>>} \cup {<<n>> : n \in -1..MaxSteps}

BurnInit ==
    /\ pc = "burn_start"
    /\ toa_array \in BurnGrids
    /\ pixel_area_m2 \in PixelAreas
    /\ n_steps \in StepCounts
    /\ vals = <<>>
    /\ toa_field = <<>> /\ toa_shape = <<0, 0>> /\ ref_shape = <<0, 0>>
    /\ hulls_by_halfday = <<>> /\ t0 = 0
    /\ KappaIdle
    /\ ViirsIdle

\* finite_mask = np.isfinite(a) & ~a.mask ; vals = a[finite_mask]
FiniteValues(a) ==
    LET F[n \in 0..Len(a)] ==
            IF n = 0 THEN <<>>
            ELSE IF IsFinite(a[n]) /\ ~a[n].m THEN Append(F[n - 1], a[n].v)
            ELSE F[n - 1]
    IN  F[Len(a)]

\* vals.sort()
Sorted(v) == SortSeq(v, LAMBDA x, y : x < y)

\* faulty variant: vals >= 0
NonNegativeOnly(v) == SelectSeq(v, LAMBDA x : x >= 0)
\* vals = vals[vals > 0]
PositiveOnly(v) == SelectSeq(v, LAMBDA x : x > 0)

\* scale = pixel_area_m2 if pixel_area_m2 else 1.0
Scale(area) == IF area # <<>> /\ area[1] # 0 THEN area[1] ELSE 1

\* np.unique(vals, return_counts=True): the sorted distinct values, and how
\* often each occurs
UniqueTimes(v) == Ascending(Range(v))
UniqueCounts(v) ==
    LET u == UniqueTimes(v)
    IN  [k \in 1..Len(u) |-> Cardinality({j \in 1..Len(v) : v[j] = u[k]})]

\* faulty variant: the counts returned without the running sum
NoCumSum(c) == c
\* np.cumsum
CumSum(c) ==
    LET F[n \in 0..Len(c)] == IF n = 0 THEN 0 ELSE F[n - 1] + c[n]
    IN  [k \in 1..Len(c) |-> F[k]]

\* np.linspace(a, b, n) in exact arithmetic: n = 1 gives [a]; otherwise
\* a + k*(b - a)/(n - 1) for k = 0..n-1, with the last sample set to b
Linspace(a, b, n) ==
    [k \in 1..n |->
        IF n = 1 THEN Ratio(a, 1)
        ELSE IF k = n THEN Ratio(b, 1)
        ELSE Ratio(a * (n - 1) + (k - 1) * (b - a), n - 1)]

\* faulty variant: side="left"
SearchSortedLeft(v, th) ==
    SetMax({q \in 0..Len(v) : \A j \in 1..q : v[j] * th.den < th.num})
\* np.searchsorted(v, th, side="right") on a sorted v: the insertion point
\* after every entry <= th
SearchSortedRight(v, th) ==
    SetMax({q \in 0..Len(v) : \A j \in 1..q : v[j] * th.den <= th.num})

BurnFrame ==
    UNCHANGED <<kvars_in, valid, obs_times, i, burnt, viirs_bin, kappas,
                times_simu, times_viirs, toa_array, pixel_area_m2, n_steps,
                pvars, shps, tvars>>

\* lines 383-385
BurnExtract ==
    /\ pc = "burn_start"
    /\ vals' = FiniteValues(toa_array)
    /\ pc' = "burn_finite"
    /\ UNCHANGED <<err, ret>>
    /\ BurnFrame

\* lines 387-388: no finite value
BurnNoFinite ==
    /\ pc = "burn_finite"
    /\ Len(vals) = 0
    /\ ret' = <<<<>>, <<>>>>
    /\ pc' = "done"
    /\ UNCHANGED <<err, vals>>
    /\ BurnFrame

\* lines 390-394: sort, keep the positive values
BurnSortDrop ==
    /\ pc = "burn_finite"
    /\ Len(vals) # 0
    /\ vals' = PositiveOnly(Sorted(vals))
    /\ pc' = "burn_positive"
    /\ UNCHANGED <<err, ret>>
    /\ BurnFrame

\* lines 395-396: no positive value
BurnNoPositive ==
    /\ pc = "burn_positive"
    /\ Len(vals) = 0
    /\ ret' = <<<<>>, <<>>, <<>>>>
    /\ pc' = "done"
    /\ UNCHANGED <<err, vals>>
    /\ BurnFrame

\* lines 398-404: exact mode
BurnExact ==
    /\ pc = "burn_positive"
    /\ Len(vals) # 0
    /\ n_steps = <<>>
    /\ LET scale == Scale(pixel_area_m2)
           unique_times == UniqueTimes(vals)
           cum_counts == CumSum(UniqueCounts(vals))
           areas == [k \in 1..Len(cum_counts) |-> cum_counts[k] * scale]
       IN  ret' = <<unique_times, cum_counts, areas>>
    /\ pc' = "done"
    /\ UNCHANGED <<err, vals>>
    /\ BurnFrame

\* lines 405-412: sampled mode
BurnSampled ==
    /\ pc = "burn_positive"
    /\ Len(vals) # 0
    /\ n_steps # <<>>
    /\ n_steps[1] >= 0
    /\ LET scale == Scale(pixel_area_m2)
           t_min == vals[1]
           t_max == vals[Len(vals)]
           thresholds == Linspace(t_min, t_max, n_steps[1])
           idx == [k \in 1..Len(thresholds) |-> SearchSortedRight(vals, thresholds[k])]
           areas == [k \in 1..Len(idx) |-> idx[k] * scale]
       IN  ret' = <<thresholds, areas>>
    /\ pc' = "done"
    /\ UNCHANGED <<err, vals>>
    /\ BurnFrame

\* line 408: np.linspace refuses a negative number of samples
BurnBadCount ==
    /\ pc = "burn_positive"
    /\ Len(vals) # 0
    /\ n_steps # <<>>
    /\ n_steps[1] < 0
    /\ err' = [type |-> "ValueError", msg |-> "Number of samples must be non-negative",
               shapes |-> <<>>]
    /\ pc' = "raised"
    /\ UNCHANGED <<ret, vals>>
    /\ BurnFrame

BurnNext ==
    \/ BurnExtract \/ BurnNoFinite \/ BurnSortDrop \/ BurnNoPositive
    \/ BurnExact \/ BurnSampled \/ BurnBadCount

SpecBurn == BurnInit /\ [][BurnNext]_vars

----------------------------------------------------------------------------
(* Timestamps of the VIIRS pipeline.  A naive or UTC timestamp is the       *)
(* number of seconds since 1970-01-01 00:00; a civil date is <<y, m, d>>.   *)

Years == 2017..2020

IsLeap(y) == (y % 4 = 0 /\ y % 100 # 0) \/ y % 400 = 0

DaysIn(y, m) ==
    IF m = 2 THEN (IF IsLeap(y) THEN 29 ELSE 28)
    ELSE IF m \in {4, 6, 9, 11} THEN 30 ELSE 31

LeapsThrough(y) == (y \div 4) - (y \div 100) + (y \div 400)

DaysBeforeYear(y) == 365 * (y - 1970) + LeapsThrough(y - 1) - LeapsThrough(1969)

DaysBeforeMonth(y, m) ==
    LET F[k \in 1..13] == IF k = 1 THEN 0 ELSE F[k - 1] + DaysIn(y, k - 1)
    IN  F[m]

\* pd.to_datetime(date): midnight of the civil date
Midnight(date) ==
    (DaysBeforeYear(date[1]) + DaysBeforeMonth(date[1], date[2]) + date[3] - 1) * 86400

YearOf(t) ==
    CHOOSE y \in Years :
        DaysBeforeYear(y) * 86400 <= t /\ t < DaysBeforeYear(y + 1) * 86400

MonthOf(t) ==
    LET y == YearOf(t)
    IN  CHOOSE m \in 1..12 :
            /\ Midnight(<<y, m, 1>>) <= t
            /\ t < Midnight(<<y, m, DaysIn(y, m)>>) + 86400

\* Timestamp.day, the day of the month
DayOf(t) == ((t - Midnight(<<YearOf(t), MonthOf(t), 1>>)) \div 86400) + 1

\* Timestamp.hour
HourOf(t) == (t % 86400) \div 3600

----------------------------------------------------------------------------
(* add_viirs_obstime.  A row of the detection table is a record; a column  *)
(* the table does not have yet holds <<>>.  ACQ_TIME is the string of its  *)
(* digits.                                                                  *)

MaxDet == 3      \* largest number of rows of an enumerated detection table

PointSeq == << <<0, 0>>, <<3, 0>>, <<0, 3>>, <<1, 1>> >>
AcqDates == << <<2017, 11, 1>>, <<2017, 10, 31>> >>
AcqTimes == << <<1, 2, 0, 0>>, <<1, 1, 5, 9>>, <<0, 1, 3, 0>> >>

\* every detection of the model, in an order that is not chronological
Catalogue ==
    LET nd == Len(AcqDates)
        nt == Len(AcqTimes)
    IN  [n \in 1..(Len(PointSeq) * nd * nt) |->
            [ACQ_DATE |-> AcqDates[(((n - 1) \div nt) % nd) + 1],
             ACQ_TIME |-> AcqTimes[((n - 1) % nt) + 1],
             geometry |-> PointSeq[((n - 1) \div (nd * nt)) + 1],
             observation_time |-> <<>>,
             half_day |-> <<>>]]

\* the subsets of S with at most k elements
UpTo(S, k) ==
    LET F[n \in 0..k] ==
            IF n = 0 THEN {{}}
            ELSE F[n - 1] \cup {T \cup {x} : T \in F[n - 1], x \in S}
    IN  F[k]

\* the rows of the catalogue picked by the index set I, in catalogue order
TableOf(I) ==
    LET F[n \in 0..Len(Catalogue)] ==
            IF n = 0 THEN <<>>
            ELSE IF n \in I THEN Append(F[n - 1], Catalogue[n])
            ELSE F[n - 1]
    IN  F[Len(Catalogue)]

Row(date, time, point) ==
    [ACQ_DATE |-> date, ACQ_TIME |-> time, geometry |-> point,
     observation_time |-> <<>>, half_day |-> <<>>]

\* three corners seen in the morning and a point between them seen later;
\* three detections at the same place in one cohort
ScenarioTables ==
    {<<Row(AcqDates[2], AcqTimes[3], PointSeq[1]),
       Row(AcqDates[2], AcqTimes[3], PointSeq[2]),
       Row(AcqDates[2], AcqTimes[3], PointSeq[3]),
       Row(AcqDates[2], AcqTimes[1], PointSeq[4])>>,
     <<Row(AcqDates[2], AcqTimes[3], PointSeq[4]),
       Row(AcqDates[2], AcqTimes[3], PointSeq[4]),
       Row(AcqDates[2], AcqTimes[3], PointSeq[4])>>}

Tables ==
    {TableOf(I) : I \in UpTo(1..Len(Catalogue), MaxDet) \ {{}}} \cup ScenarioTables

\* int(s) of a string of decimal digits
IntOfDigits(s) ==
    LET F[n \in 0..Len(s)] == IF n = 0 THEN 0 ELSE 10 * F[n - 1] + s[n]
    IN  F[Len(s)]

\* lines 221-225: ACQ_DATE + timedelta(hours=int(hm[:2]), minutes=int(hm[2:]))
Combine(row) ==
    Midnight(row.ACQ_DATE)
        + 3600 * IntOfDigits(SubSeq(row.ACQ_TIME, 1, 2))
        + 60 * IntOfDigits(SubSeq(row.ACQ_TIME, 3, Len(row.ACQ_TIME)))

\* line 226
WithObsTime(rows) ==
    [n \in 1..Len(rows) |-> [rows[n] EXCEPT !.observation_time = <<Combine(rows[n])>>]]

\* line 227: sort_values("observation_time"); rows of one time keep their order
SortByObsTime(rows) ==
    SortSeq(rows, LAMBDA a, b : a.observation_time[1] < b.observation_time[1])

\* faulty variant: noon itself counted with the morning
HalfDayAfterNoon(t) == DayOf(t) * 2 + (IF t % 86400 > 43200 THEN 1 ELSE 0)

\* line 229: dt.day * 2 + dt.hour // 12
HalfDay(t) == DayOf(t) * 2 + (HourOf(t) \div 12)

WithHalfDay(rows) ==
    [n \in 1..Len(rows) |->
        [rows[n] EXCEPT !.half_day = <<HalfDay(rows[n].observation_time[1])>>]]

\* lines 213-230
AddViirsObstime(rows) == WithHalfDay(SortByObsTime(WithObsTime(rows)))

----------------------------------------------------------------------------
(* viirs_concave_hulls_by_halfday.  Points lie on an integer lattice whose  *)
(* spacing is far larger than the buffer distance.  A geometry is a record  *)
(* [geom_type, coords, area2, buffer_of]: coords is its set of vertices,    *)
(* area2 twice its lattice area, and buffer_of the type of the geometry it  *)
(* is the buffer of ("none" when it is not a buffer).                       *)

Ratios == {2, 10}     \* the concavity ratio in tenths: 0.2 and 1.0

SetSum(S, f(_)) ==
    LET RECURSIVE Sum(_)
        Sum(T) == IF T = {} THEN 0
                  ELSE LET x == CHOOSE y \in T : TRUE
                       IN  f(x) + Sum(T \ {x})
    IN  Sum(S)

Cross(o, a, b) ==
    (a[1] - o[1]) * (b[2] - o[2]) - (a[2] - o[2]) * (b[1] - o[1])

Dot(o, a, b) ==
    (a[1] - o[1]) * (b[1] - o[1]) + (a[2] - o[2]) * (b[2] - o[2])

Collinear(S) == \A a, b, c \in S : Cross(a, b, c) = 0

\* the counter-clockwise boundary edges of the convex hull of S, each
\* between two corners
HullEdges(S) ==
    {e \in S \X S :
        /\ e[1] # e[2]
        /\ \A r \in S :
              /\ Cross(e[1], e[2], r) >= 0
              /\ Cross(e[1], e[2], r) = 0 =>
                    Dot(e[1], e[2], r) >= 0 /\ Dot(e[2], e[1], r) >= 0}

\* the two ends of a set of collinear points
Ends(S) ==
    {p \in S : \A a, b \in S : Dot(p, a, b) >= 0}

Shoelace(e) == e[1][1] * e[2][2] - e[2][1] * e[1][2]

Geom(type, coords, a2) ==
    [geom_type |-> type, coords |-> coords, area2 |-> a2, buffer_of |-> "none"]

NoGeom == Geom("none", {}, 0)
NoAttempt == [state |-> "none", hull |-> NoGeom]

\* MultiPoint(points).convex_hull: a Point, a LineString or a Polygon
ConvexHull(points) ==
    LET S == Range(points)
    IN  IF Cardinality(S) = 1 THEN Geom("Point", S, 0)
        ELSE IF Collinear(S) THEN Geom("LineString", Ends(S), 0)
        ELSE Geom("Polygon", {e[1] : e \in HullEdges(S)},
                  SetSum(HullEdges(S), Shoelace))

\* the points of S strictly inside the convex hull of S
Inside(S) == {r \in S : \A e \in HullEdges(S) : Cross(e[1], e[2], r) > 0}

\* concave_hull(MultiPoint(points), ratio): the geometries it can return.
\* Points that span no triangle give their convex hull, and so does ratio
\* 1.0; a smaller ratio may carve the triangle between a boundary edge and
\* an inner point out of the convex hull.
ConcaveHulls(points, r) ==
    LET S == Range(points)
        convex == ConvexHull(points)
    IN  IF Collinear(S) \/ r = 10 THEN {convex}
        ELSE {convex} \cup
             {Geom("Polygon", convex.coords \cup {p},
                   convex.area2 - Cross(e[1], e[2], p)) :
                 e \in HullEdges(S), p \in Inside(S)}

\* hull.buffer(tiny_buffer_deg) with a positive distance
Buffer(hull) ==
    [geom_type |-> "Polygon", coords |-> hull.coords, area2 |-> hull.area2,
     buffer_of |-> hull.geom_type]

\* faulty variant: only a Point is buffered
BufferPointOnly(hull) ==
    IF hull.geom_type = "Point" THEN Buffer(hull) ELSE hull

\* lines 273-274
BufferDegenerate(hull) ==
    IF hull.geom_type \in {"Point", "LineString"} THEN Buffer(hull) ELSE hull

\* lines 282-290: the area of a stored hull.  cells is the area in half
\* lattice cells; the buffer of a point (eps 1) or of a line (eps 2) has an
\* area far below one half cell.
GeodesicArea(hull) ==
    [cells |-> hull.area2,
     eps |-> IF hull.buffer_of = "Point" THEN 1
             ELSE IF hull.buffer_of = "LineString" THEN 2 ELSE 0]

\* line 242: rows with a geometry
WithGeometry(rows) == SelectSeq(rows, LAMBDA row : row.geometry # <<>>)

\* lines 251-252: sort_values(["half_day", "observation_time"])
SortByHalfDay(rows) ==
    SortSeq(rows, LAMBDA a, b :
        \/ a.half_day[1] < b.half_day[1]
        \/ /\ a.half_day[1] = b.half_day[1]
           /\ a.observation_time[1] < b.observation_time[1])

\* faulty variant: the cohorts in descending order
CohortsDescending(rows) == Descending({rows[n].half_day[1] : n \in 1..Len(rows)})

\* line 257: sorted(g["half_day"].unique())
Cohorts(rows) == Ascending({rows[n].half_day[1] : n \in 1..Len(rows)})

\* line 259: the rows of cohort hd
InCohort(rows, hd) == SelectSeq(rows, LAMBDA row : row.half_day[1] = hd)

Geometries(rows) == [n \in 1..Len(rows) |-> rows[n].geometry]

\* line 277: the latest observation time of the rows
MaxObsTime(rows) == SetMax({rows[n].observation_time[1] : n \in 1..Len(rows)})
----------------------------------------------------------------------------
(* _parse_start_to_utc.  A start-time string such as                        *)
(* "2017-10-08, 21:45 PST" is the record of its date, its clock <<hh, mm>>  *)
(* and its trailing word tz ("" when it has none); the comma is replaced by *)
(* a blank before anything else (line 298) and is left out.                 *)

StartDates == {<<2020, 1, 1>>, <<2020, 7, 1>>, <<2017, 10, 8>>, <<2017, 11, 6>>}
StartClocks == {<<9, 0>>, <<21, 45>>, <<0, 30>>}
StartTokens == {"PST", "PDT", "UTC", "GMT", "pdt", "", "Z", "EST"}

StartStrings ==
    [date : StartDates, clock : StartClocks, tz : StartTokens]

\* postprocess.py line 53
CaseStart == [date |-> <<2017, 10, 8>>, clock |-> <<21, 45>>, tz |-> "PST"]

\* m.group(1).upper()
Upper(tok) == IF tok = "pdt" THEN "PDT" ELSE tok

\* line 300: the string ends in PST, PDT, UTC or GMT, in either case
Recognized(tok) == Upper(tok) \in {"PST", "PDT", "UTC", "GMT"}

\* line 301
tz_map(tok) ==
    IF tok \in {"PST", "PDT"} THEN "America/Los_Angeles" ELSE "UTC"

\* midnight of the first Sunday on or after a date (1970-01-01 was a Thursday)
SundayFrom(date) ==
    Midnight(date) + 86400 * ((7 - ((Midnight(date) \div 86400 + 4) % 7)) % 7)

\* ZoneInfo("America/Los_Angeles"): daylight time runs from 02:00 of the
\* second Sunday of March to 02:00 of the first Sunday of November
InDaylightTime(t) ==
    /\ SundayFrom(<<YearOf(t), 3, 8>>) + 7200 <= t
    /\ t < SundayFrom(<<YearOf(t), 11, 1>>) + 7200

\* the UTC offset of wall-clock time t in a zone
UtcOffset(zone, t) ==
    IF zone = "America/Los_Angeles"
    THEN (IF InDaylightTime(t) THEN -25200 ELSE -28800)
    ELSE 0

\* lines 297-312, for a string
ParseStartToUtc(s) ==
    LET tz == IF Recognized(s.tz) THEN tz_map(Upper(s.tz)) ELSE "UTC"
        ts == Midnight(s.date) + 3600 * s.clock[1] + 60 * s.clock[2]
    IN  ts - UtcOffset(tz, ts)

\* lines 300-305: the trailing word left in the string handed to pandas
Remainder(s) == IF Recognized(s.tz) THEN "" ELSE s.tz

\* line 306: what pd.to_datetime(s, errors="raise") can give for a string
\* with trailing word tok.  Without a word the timestamp is naive; Z is the
\* UTC designator and gives a tz-aware timestamp; a zone name pandas does
\* not know, such as EST, is dropped with a warning by pandas 2 (naive), is
\* read as the local zone when it names the zone of the machine (aware) and
\* is refused with ValueError by pandas 3
ToDatetime(tok) ==
    CASE tok = "" -> {"naive"}
      [] tok = "Z" -> {"aware"}
      [] OTHER -> {"naive", "aware", "ValueError"}

StartInit ==
    /\ pc = "parse_start"
    /\ start_time \in StartStrings
    /\ gdf = <<>> /\ ratio = 0
    /\ g_rows = <<>> /\ hd_done = 0 /\ cum_points = <<>> /\ hulls_by_half = <<>>
    /\ attempt = <<>> /\ viirs_hist = <<>> /\ shps = <<>>
    /\ ToolsIdle
    /\ toa_field = <<>> /\ toa_shape = <<0, 0>> /\ ref_shape = <<0, 0>>
    /\ hulls_by_halfday = <<>> /\ t0 = 0
    /\ KappaIdle
    /\ BurnIdle

\* lines 292-312
ParseStart ==
    /\ pc = "parse_start"
    /\ "naive" \in ToDatetime(Remainder(start_time))
    /\ ret' = <<ParseStartToUtc(start_time)>>
    /\ pc' = "done"
    /\ UNCHANGED <<kvars_in, valid, obs_times, i, burnt, viirs_bin, kappas,
                   times_simu, times_viirs, err, bvars, pvars, shps, tvars>>

\* line 306: pd.to_datetime refuses the string
ParseStartUnparsed ==
    /\ pc = "parse_start"
    /\ "ValueError" \in ToDatetime(Remainder(start_time))
    /\ err' = [type |-> "ValueError", msg |-> "un-recognized timezone",
               shapes |-> <<>>]
    /\ pc' = "raised"
    /\ UNCHANGED <<kvars_in, valid, obs_times, i, burnt, viirs_bin, kappas,
                   times_simu, times_viirs, ret, bvars, pvars, shps, tvars>>

\* line 307: tz_localize on a timestamp that is already tz-aware
ParseStartAware ==
    /\ pc = "parse_start"
    /\ "aware" \in ToDatetime(Remainder(start_time))
    /\ err' = [type |-> "TypeError", msg |-> "Cannot localize tz-aware Timestamp",
               shapes |-> <<>>]
    /\ pc' = "raised"
    /\ UNCHANGED <<kvars_in, valid, obs_times, i, burnt, viirs_bin, kappas,
                   times_simu, times_viirs, ret, bvars, pvars, shps, tvars>>

StartNext == ParseStart \/ ParseStartUnparsed \/ ParseStartAware

SpecStart == StartInit /\ [][StartNext]_vars

----------------------------------------------------------------------------
\* the pipeline of postprocess.py: the detection table, the concavity and
\* the start time it is run with
ViirsInit ==
    /\ gdf \in Tables
    /\ pc \in {"obs_start"} \cup (IF Len(gdf) = 1 THEN {"hulls_start"} ELSE {})
    /\ ratio \in Ratios
    /\ start_time = CaseStart
    /\ g_rows = <<>> /\ hd_done = 0 /\ cum_points = <<>> /\ hulls_by_half = <<>>
    /\ attempt = NoAttempt /\ viirs_hist = <<>> /\ shps = <<>>
    /\ ToolsIdle
    /\ toa_field = <<>> /\ toa_shape = <<0, 0>> /\ ref_shape = <<0, 0>>
    /\ hulls_by_halfday = <<>> /\ t0 = 0
    /\ KappaIdle
    /\ BurnIdle

HullsFrame ==
    UNCHANGED <<kvars_in, valid, obs_times, i, burnt, viirs_bin, kappas,
                times_simu, times_viirs, bvars, ratio, start_time, viirs_hist,
                shps, tvars>>

\* postprocess.py line 92: viirs_gdf = add_viirs_obstime(viirs_gdf).  Lines
\* 220 and 226 assign the columns ACQ_DATE and observation_time in the
\* table that was passed; line 227 binds gdf to a new, sorted table, which
\* gets the half_day column and is returned
ObsTime ==
    /\ pc = "obs_start"
    /\ table_passed' = WithObsTime(gdf)
    /\ gdf' = AddViirsObstime(gdf)
    /\ pc' = "hulls_start"
    /\ UNCHANGED <<err, ret, g_rows, hd_done, cum_points, attempt, hulls_by_half>>
    /\ UNCHANGED <<kvars_in, valid, obs_times, i, burnt, viirs_bin, kappas,
                   times_simu, times_viirs, bvars, ratio, start_time,
                   viirs_hist, shps, glob_files, rvars, mvars>>

\* lines 240-241: the table has no half_day column
HullsNoColumn ==
    /\ pc = "hulls_start"
    /\ \E n \in 1..Len(gdf) : gdf[n].half_day = <<>>
    /\ err' = [type |-> "KeyError", msg |-> "Expected 'half_day' column in gdf.",
               shapes |-> <<>>]
    /\ pc' = "raised"
    /\ UNCHANGED <<ret, gdf, g_rows, hd_done, cum_points, attempt, hulls_by_half>>
    /\ HullsFrame

\* lines 242-255
HullsPrepare ==
    /\ pc = "hulls_start"
    /\ \A n \in 1..Len(gdf) : gdf[n].half_day # <<>>
    /\ g_rows' = SortByHalfDay(WithGeometry(gdf))
    /\ hulls_by_half' = <<>>
    /\ cum_points' = <<>>
    /\ hd_done' = 0
    /\ pc' = "hulls_loop"
    /\ UNCHANGED <<err, ret, gdf, attempt>>
    /\ HullsFrame

\* lines 264-268: concave_hull is called for three points or more; it
\* returns one of its geometries or raises, as the installed GEOS decides
Attempts(points, r) ==
    IF Len(points) < 3 THEN {NoAttempt}
    ELSE {[state |-> "raised", hull |-> NoGeom]} \cup
         {[state |-> "returned", hull |-> h] : h \in ConcaveHulls(points, r)}

\* faulty variant: the geometry of a failed call is stored
ChosenUnguarded(points, a) ==
    IF Len(points) < 3 THEN ConvexHull(points) ELSE a.hull

\* lines 264-270: the convex hull of fewer than three points and of a
\* failed call, the returned geometry otherwise
Chosen(points, a) ==
    IF Len(points) < 3 THEN ConvexHull(points)
    ELSE IF a.state = "raised" THEN ConvexHull(points)
    ELSE a.hull

\* lines 257-278: one pass of the loop over the cohorts
HullsCohort ==
    /\ pc = "hulls_loop"
    /\ hd_done < Len(Cohorts(g_rows))
    /\ LET hd == Cohorts(g_rows)[hd_done + 1]
           rows == InCohort(g_rows, hd)
           points == cum_points \o Geometries(rows)
       IN  /\ cum_points' = points
           /\ \E a \in Attempts(points, ratio) :
                 /\ attempt' = a
                 /\ hulls_by_half' =
                        (MaxObsTime(rows) :> BufferDegenerate(Chosen(points, a)))
                            @@ hulls_by_half
    /\ hd_done' = hd_done + 1
    /\ UNCHANGED <<pc, err, ret, gdf, g_rows>>
    /\ HullsFrame

\* line 280
HullsReturn ==
    /\ pc = "hulls_loop"
    /\ hd_done = Len(Cohorts(g_rows))
    /\ pc' = "hist_start"
    /\ UNCHANGED <<err, ret, gdf, g_rows, hd_done, cum_points, attempt, hulls_by_half>>
    /\ HullsFrame

\* faulty variant: the start time counted from the key
ElapsedReversed(t, start) == start - t

\* lines 344-349: (ts - t0).total_seconds(), a naive key taken as UTC
HistoryElapsed(t, start) == t - start

\* lines 318-351: viirs_burn_area_history_from_hulls(hulls_by_half, start_time)
HistoryBuild ==
    /\ pc = "hist_start"
    /\ LET obs == Ascending(DOMAIN hulls_by_half)
       IN  viirs_hist' =
               <<[k \in 1..Len(obs) |->
                     HistoryElapsed(obs[k], ParseStartToUtc(start_time))],
                 [k \in 1..Len(obs) |-> GeodesicArea(hulls_by_half[obs[k]])]>>
    /\ pc' = "kappa_call"
    /\ UNCHANGED <<kvars_in, valid, obs_times, i, burnt, viirs_bin, kappas,
                   times_simu, times_viirs, err, ret, bvars, gdf, ratio,
                   start_time, g_rows, hd_done, cum_points, attempt,
                   hulls_by_half, shps, tvars>>

\* postprocess.py lines 162-165 and line 456: calc_cohen_kappa_for_case is
\* called with the same hulls and start time, on a reference grid that lies
\* inside every hull
KappaCall ==
    /\ pc = "kappa_call"
    /\ toa_field' = ScenarioGrid
    /\ toa_shape' = ScenarioShape
    /\ ref_shape' = ScenarioShape
    /\ hulls_by_halfday' =
           [t \in DOMAIN hulls_by_half |-> 1..NumCells(ScenarioShape)]
    /\ t0' = ParseStartToUtc(start_time)
    /\ pc' = "kappa_start"
    /\ UNCHANGED <<valid, obs_times, i, burnt, viirs_bin, kappas, times_simu,
                   times_viirs, err, ret, bvars, pvars, shps, tvars>>

ViirsNext ==
    \/ ObsTime \/ HullsNoColumn \/ HullsPrepare \/ HullsCohort \/ HullsReturn
    \/ HistoryBuild \/ KappaCall \/ KappaPrepare \/ KappaHull \/ KappaReturn

SpecViirs == ViirsInit /\ [][ViirsNext]_vars

----------------------------------------------------------------------------
(* load_viirs_points.  The directory is the sequence of its shapefiles in   *)
(* sorted order; a shapefile is the sequence of its records, and a record   *)
(* is its geometry: "Point", "empty" (an empty geometry) or "none".         *)

MaxFiles == 2      \* largest number of shapefiles in the directory
MaxRecords == 2    \* largest number of records in a shapefile

SeqsUpTo(S, n) == UNION {[1..k -> S] : k \in 0..n}

Shapefiles == SeqsUpTo({"Point", "empty", "none"}, MaxRecords)
Directories == SeqsUpTo(Shapefiles, MaxFiles)

\* lines 188-205: the files that are not empty, concatenated
Concat(files) ==
    LET F[n \in 0..Len(files)] ==
            IF n = 0 THEN <<>>
            ELSE IF files[n] # <<>> THEN F[n - 1] \o files[n]
            ELSE F[n - 1]
    IN  F[Len(files)]

\* line 210: the records with a geometry that is not empty
KeepGeometries(rows) == SelectSeq(rows, LAMBDA r : r = "Point")

LoadInit ==
    /\ pc = "load_start"
    /\ shps \in Directories
    /\ ToolsIdle
    /\ gdf = <<>> /\ ratio = 0 /\ start_time = <<>>
    /\ g_rows = <<>> /\ hd_done = 0 /\ cum_points = <<>> /\ hulls_by_half = <<>>
    /\ attempt = <<>> /\ viirs_hist = <<>>
    /\ toa_field = <<>> /\ toa_shape = <<0, 0>> /\ ref_shape = <<0, 0>>
    /\ hulls_by_halfday = <<>> /\ t0 = 0
    /\ KappaIdle
    /\ BurnIdle

LoadFrame ==
    UNCHANGED <<kvars_in, valid, obs_times, i, burnt, viirs_bin, kappas,
                times_simu, times_viirs, bvars, pvars, shps, tvars>>

\* lines 184-186
LoadNoShapefiles ==
    /\ pc = "load_start"
    /\ shps = <<>>
    /\ err' = [type |-> "FileNotFoundError", msg |-> "No shapefiles under",
               shapes |-> <<>>]
    /\ pc' = "raised"
    /\ UNCHANGED ret
    /\ LoadFrame

\* lines 188-211
LoadReturn ==
    /\ pc = "load_start"
    /\ shps # <<>>
    /\ ret' = <<KeepGeometries(Concat(shps))>>
    /\ pc' = "done"
    /\ UNCHANGED err
    /\ LoadFrame

LoadNext == LoadNoShapefiles \/ LoadReturn

SpecLoad == LoadInit /\ [][LoadNext]_vars

----------------------------------------------------------------------------
(* load_toa_stack (landscape_validation_helpers.py) and find_rasters /      *)
(* load_stack (raster_functions.py).  A raster file <stem>_<digits>.tif is  *)
(* the record of its stem and of its string of decimal digits; the array    *)
(* read from a file is the record naming the file it came from.  The glob   *)
(* yields the matched files in an arbitrary order.                          *)

Stems == {"time_of_arrival", "flux"}
DigitStrings ==
    {<<2>>, <<1, 0>>, <<0, 0, 0, 0, 0, 0, 2>>, <<0, 0, 0, 0, 0, 1, 0>>}
RasterFiles == [stem : Stems, digits : DigitStrings]

\* glob.glob(pattern): distinct glob_files, in any order
Globs ==
    {s \in SeqsUpTo(RasterFiles, MaxFiles) :
        \A m, n \in 1..Len(s) : m # n => s[m] # s[n]}

\* the characters of a file name, as code points: the two stems differ in
\* their first letter ('f' = 102, 't' = 116), '0' = 48 and '.' = 46
CodePoints(f) ==
    <<IF f.stem = "flux" THEN 102 ELSE 116>>
        \o [n \in 1..Len(f.digits) |-> 48 + f.digits[n]] \o <<46>>

\* a < b for two strings, as Python compares them
StrLess(a, b) ==
    \E k \in 1..Len(b) :
        /\ \A n \in 1..(k - 1) : n <= Len(a) /\ a[n] = b[n]
        /\ (k > Len(a) \/ (k - 1 < Len(a) /\ a[k] < b[k]))

\* list.sort / sorted: a stable sort under the strict order Less
StableSort(s, Less(_, _)) ==
    LET Insert(sorted, x) ==
            LET p == Cardinality({n \in 1..Len(sorted) : ~Less(x, sorted[n])})
            IN  SubSeq(sorted, 1, p) \o <<x>> \o SubSeq(sorted, p + 1, Len(sorted))
        F[n \in 0..Len(s)] == IF n = 0 THEN <<>> ELSE Insert(F[n - 1], s[n])
    IN  F[Len(s)]

\* read_raster(p), src.read(1): the array stored in a file
ReadRaster(f) == [data_of |-> f]

\* helpers line 164: sorted([Path(p) for p in glob.glob(toa_glob)])
SortedPaths(fs) ==
    StableSort(fs, LAMBDA a, b : StrLess(CodePoints(a), CodePoints(b)))

\* helpers line 173: re.search(r"time_of_arrival_(\d+)\.tif$", p.name)
ToaMatch(f) == f.stem = "time_of_arrival"

\* helpers lines 168-174: the times list, built file by file
ToaTimes(paths) ==
    [n \in 1..Len(paths) |->
        IF ToaMatch(paths[n]) THEN IntOfDigits(paths[n].digits) ELSE n - 1]

\* raster_functions.py line 15: FNAME_TIME_RE, _(\d{7})\.tif$
FnameTimeMatch(f) == Len(f.digits) = 7

\* raster_functions.py lines 24-28
time_key(f) == IntOfDigits(f.digits)

\* raster_functions.py line 29: glob_files.sort(key=time_key)
SortedByTime(fs) == StableSort(fs, LAMBDA a, b : time_key(a) < time_key(b))

StackInit ==
    /\ pc \in {"toa_stack_start", "load_stack_start"}
    /\ glob_files \in Globs
    /\ args = <<>> /\ disk = <<>> /\ outcomes = <<>>
    /\ case_scripts = <<>> /\ case_idx = 0
    /\ started = <<>> /\ finished = <<>> /\ exit_code = <<>>
    /\ table_passed = <<>>
    /\ metrics_json = <<>> /\ out_file = <<>>
    /\ shps = <<>>
    /\ gdf = <<>> /\ ratio = 0 /\ start_time = <<>>
    /\ g_rows = <<>> /\ hd_done = 0 /\ cum_points = <<>> /\ hulls_by_half = <<>>
    /\ attempt = <<>> /\ viirs_hist = <<>>
    /\ toa_field = <<>> /\ toa_shape = <<0, 0>> /\ ref_shape = <<0, 0>>
    /\ hulls_by_halfday = <<>> /\ t0 = 0
    /\ KappaIdle
    /\ BurnIdle

StackFrame ==
    UNCHANGED <<kvars_in, valid, obs_times, i, burnt, viirs_bin, kappas,
                times_simu, times_viirs, bvars, pvars, shps, tvars>>

\* helpers lines 165-166
ToaStackNoFiles ==
    /\ pc = "toa_stack_start"
    /\ glob_files = <<>>
    /\ err' = [type |-> "FileNotFoundError", msg |-> "No TOA rasters found",
               shapes |-> <<>>]
    /\ pc' = "raised"
    /\ UNCHANGED ret
    /\ StackFrame

\* helpers lines 164-177
ToaStackReturn ==
    /\ pc = "toa_stack_start"
    /\ glob_files # <<>>
    /\ LET paths == SortedPaths(glob_files)
       IN  ret' = <<[paths |-> paths,
                     arrays |-> [n \in 1..Len(paths) |-> ReadRaster(paths[n])],
                     times |-> ToaTimes(paths)]>>
    /\ pc' = "done"
    /\ UNCHANGED err
    /\ StackFrame

\* raster_functions.py lines 20-21
FindNoFiles ==
    /\ pc = "load_stack_start"
    /\ glob_files = <<>>
    /\ err' = [type |-> "FileNotFoundError", msg |-> "No files matched the pattern",
               shapes |-> <<>>]
    /\ pc' = "raised"
    /\ UNCHANGED ret
    /\ StackFrame

\* raster_functions.py lines 26-27, raised while sorting
FindBadName ==
    /\ pc = "load_stack_start"
    /\ glob_files # <<>>
    /\ \E n \in 1..Len(glob_files) : ~FnameTimeMatch(glob_files[n])
    /\ err' = [type |-> "ValueError",
               msg |-> "Filename does not end with _XXXXXXX.tif", shapes |-> <<>>]
    /\ pc' = "raised"
    /\ UNCHANGED ret
    /\ StackFrame

\* raster_functions.py lines 32-56, with find_rasters at line 33
LoadStackReturn ==
    /\ pc = "load_stack_start"
    /\ glob_files # <<>>
    /\ \A n \in 1..Len(glob_files) : FnameTimeMatch(glob_files[n])
    /\ LET sorted == SortedByTime(glob_files)
       IN  ret' = <<[arr_stack |-> [n \in 1..Len(sorted) |-> ReadRaster(sorted[n])],
                     times |-> [n \in 1..Len(sorted) |-> time_key(sorted[n])]]>>
    /\ pc' = "done"
    /\ UNCHANGED err
    /\ StackFrame

StackNext ==
    ToaStackNoFiles \/ ToaStackReturn \/ FindNoFiles \/ FindBadName \/ LoadStackReturn

SpecStack == StackInit /\ [][StackNext]_vars

----------------------------------------------------------------------------
(* tools/run_all.py.  The directories under cases/ are numbered in the      *)
(* order of their paths as text; the number stands for the directory and    *)
(* for its run_case.sh.  A command (bash ./run_case.sh, or sbatch on the    *)
(* wrapper with --slurm) is started, then its return code is collected.     *)

MaxCases == 2      \* largest number of case directories beside the template

CaseDirs == 1..(MaxCases + 1)

\* line 29: the directories whose path contains "case_template"
TemplateDirs == {2}

ReturnCodes == {0, 1, 3}

Arguments ==
    [help : BOOLEAN, extra : BOOLEAN, list : BOOLEAN, dry_run : BOOLEAN,
     slurm : BOOLEAN]

\* the file system: whether cases/ exists, the directories under it that
\* hold a run_case.sh, whether common/slurm_head.txt exists
Disks ==
    {d \in [cases_dir : BOOLEAN, scripts : SUBSET CaseDirs, header : BOOLEAN] :
        ~d.cases_dir => d.scripts = {}}

\* the return code each case's command will give; the template is never run
Outcomes == {o \in [CaseDirs -> ReturnCodes] : \A d \in TemplateDirs : o[d] = 0}

\* lines 25-34: os.walk visits the directories in any order, the template
\* is skipped and the list is sorted
discover_cases(scripts) == Ascending(scripts \ TemplateDirs)

RunAllInit ==
    /\ pc = "main_start"
    /\ args \in Arguments
    /\ disk \in Disks
    /\ outcomes \in Outcomes
    /\ case_scripts = <<>> /\ case_idx = 0
    /\ started = <<>> /\ finished = <<>> /\ exit_code = <<>>
    /\ glob_files = <<>> /\ table_passed = <<>>
    /\ metrics_json = <<>> /\ out_file = <<>>
    /\ shps = <<>>
    /\ gdf = <<>> /\ ratio = 0 /\ start_time = <<>>
    /\ g_rows = <<>> /\ hd_done = 0 /\ cum_points = <<>> /\ hulls_by_half = <<>>
    /\ attempt = <<>> /\ viirs_hist = <<>>
    /\ toa_field = <<>> /\ toa_shape = <<0, 0>> /\ ref_shape = <<0, 0>>
    /\ hulls_by_halfday = <<>> /\ t0 = 0
    /\ KappaIdle
    /\ BurnIdle

RunAllFrame ==
    UNCHANGED <<kvars_in, valid, obs_times, i, burnt, viirs_bin, kappas,
                times_simu, times_viirs, err, ret, bvars, pvars, shps,
                glob_files, table_passed, mvars, args, disk,
                outcomes>>

\* sys.exit(code) before the loop
ExitEarly(code) ==
    /\ exit_code' = <<code>>
    /\ pc' = "exited"
    /\ UNCHANGED <<case_scripts, case_idx, started, finished>>
    /\ RunAllFrame

\* lines 71-73
MainHelp ==
    /\ pc = "main_start"
    /\ args.help
    /\ ExitEarly(0)

\* lines 75-78
MainExtra ==
    /\ pc = "main_start"
    /\ ~args.help /\ args.extra
    /\ ExitEarly(2)

\* lines 84-86
MainNoCasesDir ==
    /\ pc = "main_start"
    /\ ~args.help /\ ~args.extra
    /\ ~disk.cases_dir
    /\ ExitEarly(1)

\* lines 88-117: the cases are discovered; nothing to run, a listing or a
\* dry run exits with 0, otherwise the loop is entered
MainDiscover ==
    /\ pc = "main_start"
    /\ ~args.help /\ ~args.extra
    /\ disk.cases_dir
    /\ case_scripts' = discover_cases(disk.scripts)
    /\ IF case_scripts' = <<>> \/ args.list \/ args.dry_run
       THEN exit_code' = <<0>> /\ pc' = "exited"
       ELSE exit_code' = exit_code /\ pc' = "loop"
    /\ UNCHANGED <<case_idx, started, finished>>
    /\ RunAllFrame

\* lines 41-48, called at line 129: the Slurm header file is missing
SlurmNoHeader ==
    /\ pc = "loop"
    /\ case_idx < Len(case_scripts)
    /\ args.slurm /\ ~disk.header
    /\ exit_code' = <<1>>
    /\ pc' = "exited"
    /\ UNCHANGED <<case_scripts, case_idx, started, finished>>
    /\ RunAllFrame

\* lines 119-131 and 138: the command of the next case is started
CommandStart ==
    /\ pc = "loop"
    /\ case_idx < Len(case_scripts)
    /\ args.slurm => disk.header
    /\ started' = Append(started, case_scripts[case_idx + 1])
    /\ pc' = "waiting"
    /\ UNCHANGED <<case_scripts, case_idx, finished, exit_code>>
    /\ RunAllFrame

\* lines 131-132 and 138-139: the command returned 0
CommandOk ==
    /\ pc = "waiting"
    /\ outcomes[case_scripts[case_idx + 1]] = 0
    /\ finished' = Append(finished, 0)
    /\ case_idx' = case_idx + 1
    /\ pc' = "loop"
    /\ UNCHANGED <<case_scripts, started, exit_code>>
    /\ RunAllFrame

\* faulty variant: a failed command is reported and the loop goes on
CommandFailedGoesOn ==
    /\ pc = "waiting"
    /\ outcomes[case_scripts[case_idx + 1]] # 0
    /\ finished' = Append(finished, outcomes[case_scripts[case_idx + 1]])
    /\ case_idx' = case_idx + 1
    /\ pc' = "loop"
    /\ UNCHANGED <<case_scripts, started, exit_code>>
    /\ RunAllFrame

\* lines 133-135 and 140-142: check=True raised CalledProcessError
CommandFailed ==
    /\ pc = "waiting"
    /\ outcomes[case_scripts[case_idx + 1]] # 0
    /\ finished' = Append(finished, outcomes[case_scripts[case_idx + 1]])
    /\ exit_code' = <<outcomes[case_scripts[case_idx + 1]]>>
    /\ pc' = "exited"
    /\ UNCHANGED <<case_scripts, case_idx, started>>
    /\ RunAllFrame

\* lines 144-147: every command returned 0
MainEnd ==
    /\ pc = "loop"
    /\ case_idx = Len(case_scripts)
    /\ pc' = "done"
    /\ UNCHANGED <<case_scripts, case_idx, started, finished, exit_code>>
    /\ RunAllFrame

RunAllNext ==
    \/ MainHelp \/ MainExtra \/ MainNoCasesDir \/ MainDiscover
    \/ SlurmNoHeader \/ CommandStart \/ CommandOk \/ CommandFailed \/ MainEnd

SpecRunAll == RunAllInit /\ [][RunAllNext]_vars

----------------------------------------------------------------------------
(* metrics_to_macro.py, a script run from top to bottom.  The file          *)
(* outputs/metrics.json is missing, holds text that is not JSON, or holds a *)
(* JSON value: an object, as the sequence of its <<key, value>> members, or *)
(* an array.  A line of the output is a string or the record of a           *)
(* \DefineMetric command.                                                   *)

MaxMetrics == 2    \* largest number of members of the JSON object

MetricKeys == {"rmse", "bias", "r2"}
MetricValues ==
    {[type |-> "float", v |-> 1], [type |-> "int", v |-> 2],
     [type |-> "str", v |-> 3]}

Objects ==
    {o \in SeqsUpTo(MetricKeys \X MetricValues, MaxMetrics) :
        \A m, n \in 1..Len(o) : m # n => o[m][1] # o[n][1]}

MetricsFiles ==
    {[kind |-> "missing"], [kind |-> "invalid"], [kind |-> "array"]}
        \cup {[kind |-> "object", members |-> o] : o \in Objects}

\* lines 9-33: the general macros, one entry per command
GeneralMacros ==
    <<"% Auto-generated metrics_macros.tex", "\\makeatletter",
      "\\newcommand{\\DefineMetric}", "\\newcommand{\\Metric}",
      "\\newcommand{\\MetricOr}", "\\newcommand{\\IfMetricTF}",
      "\\makeatother", "">>

\* line 46: f"{v:.6g}" for a float, str(v) otherwise
Sval(val) ==
    IF val.type = "float" THEN [format |-> ".6g", of |-> val.v]
    ELSE [format |-> "str", of |-> val.v]

\* lines 44-47
Definitions(members) ==
    [n \in 1..Len(members) |->
        [command |-> "DefineMetric", key |-> members[n][1],
         sval |-> Sval(members[n][2])]]

MacroInit ==
    /\ pc = "macro_start"
    /\ metrics_json \in MetricsFiles
    /\ out_file = <<>>
    /\ glob_files = <<>> /\ table_passed = <<>>
    /\ args = <<>> /\ disk = <<>> /\ outcomes = <<>>
    /\ case_scripts = <<>> /\ case_idx = 0
    /\ started = <<>> /\ finished = <<>> /\ exit_code = <<>>
    /\ shps = <<>>
    /\ gdf = <<>> /\ ratio = 0 /\ start_time = <<>>
    /\ g_rows = <<>> /\ hd_done = 0 /\ cum_points = <<>> /\ hulls_by_half = <<>>
    /\ attempt = <<>> /\ viirs_hist = <<>>
    /\ toa_field = <<>> /\ toa_shape = <<0, 0>> /\ ref_shape = <<0, 0>>
    /\ hulls_by_halfday = <<>> /\ t0 = 0
    /\ KappaIdle
    /\ BurnIdle

MacroFrame ==
    UNCHANGED <<kvars_in, valid, obs_times, i, burnt, viirs_bin, kappas,
                times_simu, times_viirs, ret, bvars, pvars, shps, glob_files,
                rvars, table_passed, metrics_json>>

\* line 6: metrics_path.read_text() on a file that does not exist
MacroNoFile ==
    /\ pc = "macro_start"
    /\ metrics_json.kind = "missing"
    /\ err' = [type |-> "FileNotFoundError", msg |-> "metrics.json",
               shapes |-> <<>>]
    /\ pc' = "raised"
    /\ UNCHANGED out_file
    /\ MacroFrame

\* line 6: json.loads on text that is not JSON
MacroNotJson ==
    /\ pc = "macro_start"
    /\ metrics_json.kind = "invalid"
    /\ err' = [type |-> "JSONDecodeError", msg |-> "metrics.json",
               shapes |-> <<>>]
    /\ pc' = "raised"
    /\ UNCHANGED out_file
    /\ MacroFrame

\* line 44: metrics.items() on a JSON value that is not an object
MacroNotObject ==
    /\ pc = "macro_start"
    /\ metrics_json.kind = "array"
    /\ err' = [type |-> "AttributeError", msg |-> "items", shapes |-> <<>>]
    /\ pc' = "raised"
    /\ UNCHANGED out_file
    /\ MacroFrame

\* lines 6-50
MacroWrite ==
    /\ pc = "macro_start"
    /\ metrics_json.kind = "object"
    /\ out_file' = <<GeneralMacros \o Definitions(metrics_json.members)>>
    /\ pc' = "done"
    /\ UNCHANGED err
    /\ MacroFrame

MacroNext == MacroNoFile \/ MacroNotJson \/ MacroNotObject \/ MacroWrite

SpecMacro == MacroInit /\ [][MacroNext]_vars

----------------------------------------------------------------------------
Init ==
    KappaInit \/ BurnInit \/ ViirsInit \/ StartInit \/ LoadInit \/ StackInit
    \/ RunAllInit \/ MacroInit
Next ==
    KappaNext \/ BurnNext \/ ViirsNext \/ StartNext \/ LoadNext \/ StackNext
    \/ RunAllNext \/ MacroNext
Spec == Init /\ [][Next]_vars

----------------------------------------------------------------------------
(* burn_area_history_from_toa: properties *)

\* the cells that have burned: unmasked, finite, strictly positive arrival time
PositiveCells ==
    {j \in 1..Len(toa_array) :
        toa_array[j].k = "num" /\ ~toa_array[j].m /\ toa_array[j].v > 0}
PositiveTimes == {toa_array[j].v : j \in PositiveCells}

NonDecreasing(q) == \A k \in 1..(Len(q) - 1) : q[k] <= q[k + 1]

BurnReturned == pc = "done" /\ toa_field = <<>> /\ toa_shape = <<0, 0>>

\* C8: in exact mode the curve has one knot per distinct positive finite
\* arrival value, times non-decreasing, cumulative counts and areas
\* non-decreasing, and the final cumulative count is the number of finite,
\* strictly positive, unmasked cells
C8_ExactCurve ==
    (BurnReturned /\ n_steps = <<>>) =>
        /\ Len(ret[1]) = Cardinality(PositiveTimes)
        /\ Range(ret[1]) = PositiveTimes
        /\ NonDecreasing(ret[1])
        /\ PositiveCells # {} =>
              /\ Len(ret) = 3
              /\ Len(ret[2]) = Len(ret[1]) /\ Len(ret[3]) = Len(ret[1])
              /\ NonDecreasing(ret[2])
              /\ NonDecreasing(ret[3])
              /\ ret[2][Len(ret[2])] = Cardinality(PositiveCells)
              /\ \A k \in 1..Len(ret[1]) :
                    ret[2][k] =
                        Cardinality({j \in PositiveCells : toa_array[j].v <= ret[1][k]})

C8_Witness ==
    /\ BurnReturned /\ n_steps = <<>>
    /\ Len(ret[1]) = 2
    /\ Cardinality(PositiveCells) = 3
    /\ ret[2] = <<2, 3>>
    /\ \E j \in 1..Len(toa_array) : toa_array[j].k = "num" /\ toa_array[j].v <= 0

\* the largest count a returned curve reports (0 for an empty curve)
ReportedCounts ==
    IF Len(ret) = 3 THEN Range(ret[2])
    ELSE {a \div Scale(pixel_area_m2) : a \in Range(ret[2])}

\* C9: a cell whose arrival value is zero, negative, NaN or masked is never
\* counted, and a grid with no finite cell or no strictly positive finite cell
\* gives an empty curve and no error
C9_ExcludedCells ==
    /\ BurnReturned =>
          /\ \A n \in ReportedCounts : n <= Cardinality(PositiveCells)
          /\ Len(ret) = 3 => Range(ret[1]) \subseteq PositiveTimes
          /\ PositiveCells = {} => \A c \in 1..Len(ret) : ret[c] = <<>>
    /\ (toa_shape = <<0, 0>> /\ PositiveCells = {}) => pc # "raised"

C9_Witness ==
    /\ BurnReturned
    /\ PositiveCells = {}
    /\ \E j \in 1..Len(toa_array) : toa_array[j].k = "num" /\ toa_array[j].v = 0
    /\ \E j \in 1..Len(toa_array) : toa_array[j].k = "num" /\ toa_array[j].v < 0
    /\ \E j \in 1..Len(toa_array) : toa_array[j].m
    /\ n_steps = <<0 - 1>>
    /\ ret = <<<<>>, <<>>, <<>>>>

\* the per-cell area: the pixel area given, one cell when none is given
PerCellArea == IF pixel_area_m2 = <<>> THEN 1 ELSE pixel_area_m2[1]

\* C10: with a sample count N the curve has exactly N thresholds evenly spaced
\* from the minimum to the maximum positive arrival value, the value at each
\* threshold is the per-cell area times the number of positive finite arrival
\* values <= the threshold, and the values are non-decreasing
C10_SampledCurve ==
    (BurnReturned /\ n_steps # <<>> /\ PositiveCells # {}) =>
        LET N == n_steps[1]
            lo == SetMin(PositiveTimes)
            hi == SetMax(PositiveTimes)
        IN  /\ Len(ret) = 2
            /\ Len(ret[1]) = N /\ Len(ret[2]) = N
            /\ N >= 1 => ret[1][1] = Ratio(lo, 1)
            /\ N >= 2 => ret[1][N] = Ratio(hi, 1)
            /\ \A k \in 1..N :
                  /\ ret[1][k].den > 0
                  /\ ret[1][k].num * (N - 1) =
                        ret[1][k].den * (lo * (N - 1) + (k - 1) * (hi - lo))
                  /\ ret[2][k] = PerCellArea *
                        Cardinality({j \in PositiveCells :
                            toa_array[j].v * ret[1][k].den <= ret[1][k].num})
            /\ NonDecreasing(ret[2])

C10_Witness ==
    /\ BurnReturned /\ n_steps = <<3>>
    /\ pixel_area_m2 = <<2>>
    /\ Cardinality(PositiveCells) = 3
    /\ ret[1] = <<Ratio(1, 1), Ratio(3, 2), Ratio(2, 1)>>
    /\ ret[2] = <<4, 4, 6>>

----------------------------------------------------------------------------
(* add_viirs_obstime: properties *)

\* the table carries the observation_time and half_day columns
HasCohorts == Len(gdf) > 0 /\ \A n \in 1..Len(gdf) : gdf[n].half_day # <<>>

Detection(row) == <<row.ACQ_DATE, row.ACQ_TIME, row.geometry>>

\* how many rows of the table are the detection d
Copies(rows, d) == Cardinality({n \in 1..Len(rows) : Detection(rows[n]) = d})

HourDigits(row) == 10 * row.ACQ_TIME[1] + row.ACQ_TIME[2]
MinuteDigits(row) == 10 * row.ACQ_TIME[3] + row.ACQ_TIME[4]

\* C11: add_viirs_obstime keeps every detection and gives each one cohort
\* index, 2 * (day of the month) + (1 if the hour is 12 or more, else 0), of
\* its observation time, the acquisition date plus HH hours and MM minutes of
\* the 4-digit time string.
C11_CohortIndex ==
    [][pc = "obs_start" /\ pc' = "hulls_start" =>
          /\ Len(gdf') = Len(gdf)
          /\ \A n \in 1..Len(gdf) :
                Copies(gdf', Detection(gdf[n])) = Copies(gdf, Detection(gdf[n]))
          /\ \A n \in 1..Len(gdf') :
                /\ gdf'[n].observation_time =
                      <<Midnight(gdf'[n].ACQ_DATE) + 3600 * HourDigits(gdf'[n])
                            + 60 * MinuteDigits(gdf'[n])>>
                /\ gdf'[n].half_day =
                      <<2 * gdf'[n].ACQ_DATE[3]
                            + (IF HourDigits(gdf'[n]) >= 12 THEN 1 ELSE 0)>>]_vars

C11_Witness ==
    /\ pc = "hulls_start"
    /\ HasCohorts
    /\ \E a, b, c \in 1..Len(gdf) :
          /\ gdf[a].ACQ_TIME = <<1, 1, 5, 9>> /\ gdf[a].half_day = <<62>>
          /\ gdf[b].ACQ_TIME = <<1, 2, 0, 0>> /\ gdf[b].half_day = <<63>>
          /\ gdf[c].ACQ_DATE = <<2017, 11, 1>> /\ gdf[c].half_day = <<2>>

\* C12: the cohort order is chronological: of two detections of one table,
\* the one observed no later has the cohort index that is no greater.
C12_Chronological ==
    HasCohorts =>
        \A a, b \in 1..Len(gdf) :
            gdf[a].observation_time[1] <= gdf[b].observation_time[1] =>
                gdf[a].half_day[1] <= gdf[b].half_day[1]

----------------------------------------------------------------------------
(* viirs_concave_hulls_by_halfday: properties *)

Count(q, x) == Cardinality({n \in 1..Len(q) : q[n] = x})
SameBag(q, r) == Len(q) = Len(r) /\ \A x \in Range(q) : Count(q, x) = Count(r, x)
IsPrefix(q, r) == Len(q) <= Len(r) /\ SubSeq(r, 1, Len(q)) = q

\* the cohort indices of the table, ascending
CohortIndices == Ascending({gdf[n].half_day[1] : n \in 1..Len(gdf)})

\* the points of the detections whose cohort index is at most hd
PointsUpTo(hd) ==
    Geometries(SelectSeq(gdf, LAMBDA row : row.half_day[1] <= hd))

\* the key of cohort hd: the latest observation time among its detections
KeyOf(hd) ==
    SetMax({gdf[n].observation_time[1] :
               n \in {m \in 1..Len(gdf) : gdf[m].half_day[1] = hd}})

\* C13: the cohorts are processed in ascending index order and the point
\* accumulator only grows: the k-th pass stores, for the k-th smallest cohort
\* index hd, the hull of all the detections whose index is at most hd.
C13_CumulativeHull ==
    [][pc = "hulls_loop" /\ hd_done' = hd_done + 1 =>
          LET hd == CohortIndices[hd_done']
          IN  /\ IsPrefix(cum_points, cum_points')
              /\ SameBag(cum_points', PointsUpTo(hd))
              /\ KeyOf(hd) \in DOMAIN hulls_by_half'
              /\ hulls_by_half'[KeyOf(hd)] =
                    BufferDegenerate(Chosen(PointsUpTo(hd), attempt'))]_vars

C13_Witness ==
    /\ pc = "hulls_loop"
    /\ hd_done = 2
    /\ Len(cum_points) = 3
    /\ Cardinality(Range(cum_points)) = 3
    /\ Len(InCohort(g_rows, CohortIndices[2])) = 1
    /\ hulls_by_half[KeyOf(CohortIndices[2])].geom_type = "Polygon"
    /\ hulls_by_half[KeyOf(CohortIndices[2])].area2 = 9

AreaLeq(a, b) == a.cells < b.cells \/ (a.cells = b.cells /\ a.eps <= b.eps)

\* the stored hull of the k-th smallest cohort index
HullOf(k) == hulls_by_half[KeyOf(CohortIndices[k])]

\* the cohorts processed so far have their hulls stored
Stored ==
    /\ HasCohorts
    /\ \A k \in 1..hd_done : KeyOf(CohortIndices[k]) \in DOMAIN hulls_by_half

AreasGrow ==
    \A k \in 2..hd_done : AreaLeq(GeodesicArea(HullOf(k - 1)), GeodesicArea(HullOf(k)))

\* C14: for every detection set and every concavity, the area of the hull
\* of a cohort is at least the area of the hull of the preceding observed
\* cohort.
C14_AreaGrows == Stored => AreasGrow

\* the perimeter of the attempt-then-fallback policy: the convex hull of
\* fewer than three points; otherwise the geometry concave_hull returned,
\* unless it raised, returned nothing or returned a geometry without area
Selected(points, a) ==
    IF Len(points) < 3 THEN ConvexHull(points)
    ELSE IF \/ a.state = "raised"
            \/ a.hull.coords = {}
            \/ a.hull.area2 = 0
         THEN ConvexHull(points)
    ELSE a.hull

\* C16: each pass selects the perimeter by attempt-then-fallback: the convex
\* hull of fewer than 3 accumulated points; otherwise the concave hull,
\* replaced by the convex hull when the construction raises, returns an
\* empty geometry or returns a geometry that bears no area.
C16_AttemptThenFallback ==
    [][pc = "hulls_loop" /\ hd_done' = hd_done + 1 =>
          /\ (attempt'.state = "none") = (Len(cum_points') < 3)
          /\ hulls_by_half'[KeyOf(CohortIndices[hd_done'])] =
                BufferDegenerate(Selected(cum_points', attempt'))]_vars

\* the construction raised for three corners and their convex hull is stored
C16_Witness ==
    /\ Stored
    /\ hd_done = 1
    /\ Len(cum_points) = 3
    /\ attempt.state = "raised"
    /\ HullOf(1) = ConvexHull(cum_points)
    /\ HullOf(1).area2 = 9

\* C17: every stored hull is a polygon with an area above zero: a point or
\* a line (one point, two points, collinear points, three detections at one
\* place) is buffered into a polygon before it is stored.
C17_PolygonWithArea ==
    \A t \in DOMAIN hulls_by_half :
        /\ hulls_by_half[t].geom_type = "Polygon"
        /\ GeodesicArea(hulls_by_half[t]).cells > 0
              \/ GeodesicArea(hulls_by_half[t]).eps > 0

\* three detections at one place in one cohort, stored as a buffered point
C17_Witness ==
    /\ Stored
    /\ hd_done = 1
    /\ Len(cum_points) = 3
    /\ Cardinality(Range(cum_points)) = 1
    /\ attempt.state = "returned" /\ attempt.hull.geom_type = "Point"
    /\ HullOf(1).geom_type = "Polygon" /\ HullOf(1).buffer_of = "Point"

----------------------------------------------------------------------------
(* _parse_start_to_utc: properties *)

\* the UTC offset a zone abbreviation denotes, in seconds
Denoted(tok) ==
    CASE tok = "PST" -> -28800
      [] tok = "PDT" -> -25200
      [] OTHER -> 0

WallClock(s) == Midnight(s.date) + 3600 * s.clock[1] + 60 * s.clock[2]

\* C18: a start-time string that ends in a recognized zone abbreviation is
\* parsed without the token, taken as wall-clock time of the zone the token
\* denotes and converted to UTC; "2020-01-01, 09:00 PDT" gives
\* 2020-01-01T16:00:00Z.
C18_ZoneOfToken ==
    pc = "done" /\ Recognized(start_time.tz) =>
        ret[1] = WallClock(start_time) - Denoted(Upper(start_time.tz))

\* C23: a start-time string whose trailing zone token is not one of PST,
\* PDT, UTC, GMT is treated as UTC: _parse_start_to_utc returns the date and
\* time of the string read as UTC, and does not raise.
C23_UnrecognizedIsUtc ==
    /\ pc \in {"done", "raised"}
    /\ start_time.tz # "" /\ ~Recognized(start_time.tz)
    => pc = "done" /\ ret = <<WallClock(start_time)>>

----------------------------------------------------------------------------
(* the pipeline as a whole: what it does to the values it is given *)

\* C24: add_viirs_obstime, viirs_concave_hulls_by_halfday,
\* viirs_burn_area_history_from_hulls and calc_cohen_kappa_for_case leave
\* the values passed in by the caller unchanged: the detection table handed
\* to add_viirs_obstime is after the call what it was before, the table is
\* not changed while the hulls are built, the hull mapping is not changed
\* once returned, and the arrival grid and hulls given to the scorer are
\* not changed by it.
C24_ArgumentsUnchanged ==
    [][/\ pc = "obs_start" => table_passed' = gdf
       /\ pc \in {"hulls_start", "hulls_loop"} => gdf' = gdf
       /\ pc \in {"hist_start", "kappa_call"} =>
              gdf' = gdf /\ hulls_by_half' = hulls_by_half
       /\ pc \in {"kappa_start", "kappa_loop"} =>
              /\ gdf' = gdf /\ hulls_by_half' = hulls_by_half
              /\ toa_field' = toa_field /\ hulls_by_halfday' = hulls_by_halfday]_vars

----------------------------------------------------------------------------
(* viirs_burn_area_history_from_hulls: properties *)

HistoryKeys == Ascending(DOMAIN hulls_by_half)

\* the number of detections accumulated in the hull stored under key t
Accumulated(t) ==
    LET k == CHOOSE j \in 1..Len(CohortIndices) : KeyOf(CohortIndices[j]) = t
    IN  Len(PointsUpTo(CohortIndices[k]))

\* C15: the observed history, its hulls taken in ascending key order, has
\* ascending elapsed times and non-decreasing areas: the hull of a later key
\* never covers fewer accumulated detections than the hull of an earlier key.
C15_HistoryMonotone ==
    viirs_hist # <<>> =>
        \A k \in 2..Len(HistoryKeys) :
            /\ viirs_hist[1][k - 1] < viirs_hist[1][k]
            /\ AreaLeq(viirs_hist[2][k - 1], viirs_hist[2][k])
            /\ Accumulated(HistoryKeys[k - 1]) <= Accumulated(HistoryKeys[k])

\* C19: the elapsed seconds of a hull are its key, taken as UTC, less the
\* start time in UTC, and calc_cohen_kappa_for_case returns, for the same
\* hulls and start time, the times viirs_burn_area_history_from_hulls returns.
C19_SameElapsed ==
    pc = "done" /\ viirs_hist # <<>> =>
        /\ Len(times_viirs) = Len(HistoryKeys)
        /\ \A k \in 1..Len(HistoryKeys) : times_viirs[k] = HistoryKeys[k] - t0
        /\ ret[3] = viirs_hist[1]

\* two hulls keyed 10 h 30 min apart, the start time parsed to
\* 2017-10-09 04:45 UTC
C19_Witness ==
    /\ pc = "done"
    /\ viirs_hist # <<>>
    /\ Len(ret[3]) = 2
    /\ ret[3] = viirs_hist[1]
    /\ t0 = Midnight(<<2017, 10, 9>>) + 17100
    /\ ret[3][2] - ret[3][1] = 37800

----------------------------------------------------------------------------
(* load_viirs_points: properties *)

\* some shapefile of the directory holds a record with a geometry
AnyValidRecord ==
    \E f \in 1..Len(shps) : \E r \in 1..Len(shps[f]) : shps[f][r] = "Point"

\* C20: load_viirs_points fails whenever no source yields a valid record,
\* both when the directory holds no shapefile and when every record of its
\* shapefiles is empty or without geometry; it never returns an empty
\* detection set.
C20_NoDetectionsFails ==
    /\ pc = "done" => ret[1] # <<>>
    /\ pc \in {"done", "raised"} /\ ~AnyValidRecord => pc = "raised"

----------------------------------------------------------------------------
(* load_toa_stack, find_rasters / load_stack: properties *)

\* the time encoded in the name of a file
EncodedTime(f) == IntOfDigits(f.digits)

\* the call was load_toa_stack and it returned
ToaStackDone == pc = "done" /\ "paths" \in DOMAIN ret[1]

\* the call was load_stack and it returned
LoadStackDone == pc = "done" /\ "arr_stack" \in DOMAIN ret[1]

\* C21: a glob of time-suffixed rasters is returned in ascending order of
\* the numeric time encoded in each file name, each array paired with the
\* time of its own file, and an empty match fails with a missing-file
\* error; for load_toa_stack and for find_rasters / load_stack.
C21_FramesInTimeOrder ==
    /\ ToaStackDone /\ (\A n \in 1..Len(glob_files) : ToaMatch(glob_files[n]))
         => /\ NonDecreasing(ret[1].times)
            /\ \A n \in 1..Len(ret[1].paths) :
                 /\ ret[1].arrays[n] = ReadRaster(ret[1].paths[n])
                 /\ ret[1].times[n] = EncodedTime(ret[1].paths[n])
    /\ LoadStackDone
         => /\ NonDecreasing(ret[1].times)
            /\ \A n \in 1..Len(ret[1].times) :
                 ret[1].times[n] = EncodedTime(ret[1].arr_stack[n].data_of)
    /\ pc \in {"done", "raised"} /\ glob_files = <<>>
         => pc = "raised" /\ err.type = "FileNotFoundError"

----------------------------------------------------------------------------
(* run_all.py: properties *)

\* the directories with a run_case.sh that are not under the template
Runnable == disk.scripts \ TemplateDirs

----------------------------------------------------------------------------
(* metrics_to_macro.py: properties *)

\* C25: the script always writes metrics_macros.tex with the general macro
\* definitions first, and when metrics.json is missing or is not valid JSON
\* it still completes, writing the general macros and no definition.
C25_GeneralMacrosAlways ==
    pc \in {"done", "raised"} =>
        /\ out_file # <<>>
        /\ SubSeq(out_file[1], 1, Len(GeneralMacros)) = GeneralMacros
        /\ metrics_json.kind \in {"missing", "invalid"} =>
               pc = "done" /\ out_file = <<GeneralMacros>>

----------------------------------------------------------------------------
(* burn_area_history_from_toa: the shape of the result *)

\* C26: burn_area_history_from_toa returns the three components (times,
\* counts, areas) on every path: with no finite value, with no positive
\* value, in exact mode and in sampled mode.
C26_ThreeComponents == BurnReturned => Len(ret) = 3

----------------------------------------------------------------------------
(* calc_cohen_kappa_for_case: a grid without valid cells, and the records   *)
(* taken in output order                                                    *)

\* C27: for every simulated grid whose shape matches the reference grid the
\* function completes with one record per hull; when no cell of the grid is
\* valid each kappa is NaN and no exception is raised.
C27_AllInvalidCompletes ==
    (pc \in {"done", "raised"} /\ ShapesMatch(toa_shape, ref_shape)) =>
        /\ pc = "done"
        /\ err = NoErr
        /\ \A c \in 1..3 : Len(ret[c]) = Cardinality(DOMAIN hulls_by_halfday)
        /\ ValidCells = {} => \A h \in 1..Len(ret[1]) : ret[1][h].nan

\* the realized cutoffs recorded so far that are defined
Defined(simu) == {h \in 1..Len(simu) : simu[h].k = "num"}

\* C28: along the records in output order the simulated burned extent never
\* shrinks (the cells burned for a record are burned for the next one),
\* every defined realized cutoff is > 0 and <= the observed elapsed seconds
\* of its record, and the defined realized cutoffs are non-decreasing.
C28_ExtentNeverShrinks ==
    [][(pc = "kappa_loop" /\ Len(times_viirs') = Len(times_viirs) + 1) =>
          /\ times_viirs # <<>> =>
                \A j \in 1..Len(burnt) : burnt[j] = 1 => burnt'[j] = 1
          /\ \A h \in Defined(times_simu') :
                times_simu'[h].v > 0 /\ times_simu'[h].v <= times_viirs'[h]
          /\ \A g, h \in Defined(times_simu') :
                g <= h => times_simu'[g].v <= times_simu'[h].v]_vars

\* two records, the second with more burned cells and a later cutoff
C28_Witness ==
    /\ pc = "done"
    /\ Len(ret[2]) = 2
    /\ ret[2][1] = Num(1) /\ ret[2][2] = Num(2)
    /\ ret[3][1] < ret[3][2]
    /\ Cardinality(BurnedCells) >= 2

====
